---- MODULE Spec2Model ----
(***************************************************************************)
(* Retris: the falling-block game of src/retris/js.  The game engine       *)
(* (game.js), the board (board.js), the piece catalog and the bag          *)
(* randomizer (tetromino.js) as a state machine.                           *)
(*                                                                         *)
(* JavaScript values: null is the string "null" for a grid cell, the       *)
(* record NoPiece for a piece reference and the handle 0 for a timer       *)
(* handle (setInterval returns positive integers).  Return values are the  *)
(* strings "true", "false" and "undefined".  Array indices are those of    *)
(* the source (0-based) for the grid; a shape matrix and the bag are       *)
(* sequences, so shape[row][col] of the source is shape[row+1][col+1].     *)
(***************************************************************************)
EXTENDS Integers, Sequences, FiniteSets, TLC

VARIABLES
    game,         \* the Game object: its fields, the Board and the BagRandomizer
    timers,       \* the host's live setInterval timers: records [id, ms]
    nextTimerId,  \* the handle the host's next setInterval returns
    events,       \* what the last call did to its collaborators, in order
    ret,          \* the last call's return value
    lastOp,       \* the method (or timer callback) called last
    steps,        \* number of calls made since the initial state
    rz,           \* a stand-alone BagRandomizer: [bag]
    rzCalls,      \* number of next() calls made on rz
    rzBlock,      \* the types rz returned in the current block of 7 calls
    rzLast,       \* the last call on rz and its result: [op, type], with the
                  \* result of the peek() right before it, if any: [peeked]
    rzTwin,       \* a second BagRandomizer given the same random draws and the
                  \* same next() calls as rz, but no peek(): [bag, ret, pending]
    bd,           \* a stand-alone Board: [width, height, grid, clearedLines]
    bdRets,       \* the values the clearLines() calls on bd returned, in order
    wk,           \* a stand-alone getWallKicks call: [op, type, from, to, result]
    hs,           \* a stand-alone Storage: [item (localStorage's retris_highscores),
                  \* saved (every entry saveScore built, in order), ret]
    ds,           \* the getDropSpeed() calls just made on a constructed Game whose
                  \* level was set: [op, level, speed, speedAbove]
    vp,           \* a stand-alone isValidPosition call: [op, board, piece, offsetX,
                  \* offsetY, result]
    app,          \* the App: the state of its game, the screen shown, animationId
                  \* (0 for null), the animation frames requested and not yet run or
                  \* cancelled, the next handle of requestAnimationFrame and the
                  \* pending timeouts of handleGameOver
    ctl           \* the Controls: the state of their game, keysDown, repeatTimers
                  \* (0 for no property), the timers of the host that are set and not
                  \* cleared, the next timer handle, the codes whose last key event
                  \* was a keyup, and what the last handler did

\* the variables of the game and of each stand-alone object
gameVars == <<game, timers, nextTimerId, events, ret, lastOp, steps>>

rzVars == <<rz, rzCalls, rzBlock, rzLast, rzTwin>>

bdVars == <<bd, bdRets>>

wkVars == <<wk>>

hsVars == <<hs>>

dsVars == <<ds>>

vpVars == <<vp>>

appVars == <<app>>

ctlVars == <<ctl>>

vars == <<gameVars, rzVars, bdVars, wkVars, hsVars, dsVars, vpVars, appVars, ctlVars>>

(***************************************************************************)
(* Bounds of the model                                                     *)
(***************************************************************************)
\* calls explored after each initial state
MaxSteps == 3
\* a game session's shuffle: the random draws of its first ShuffleDraws loop
\* iterations take every value, its later iterations draw j = i
ShuffleDraws == 1
\* next() calls explored on the stand-alone randomizer
MaxCalls == 15
\* the rotation indices 0..MaxRotationArg are passed to the stand-alone getWallKicks
MaxRotationArg == 3
\* saveScore() calls explored on the stand-alone storage
MaxSaves == 11
\* getDropSpeed() is asked for the levels 1..MaxLevel
MaxLevel == 32
\* the stand-alone isValidPosition gets the offsets -MaxOffset..MaxOffset
MaxOffset == 1
\* requestAnimationFrame is called at most MaxFrames times
MaxFrames == 5
\* setTimeout and setInterval are called at most MaxTimers times
MaxTimers == 4
\* bottom rows of the stand-alone board that hold cells initially
MaxFilledRows == 3
\* clearLines() calls explored on the stand-alone board
MaxBoardCalls == 2

(***************************************************************************)
(* tetromino.js: the catalog                                               *)
(***************************************************************************)
TETROMINOES ==
    [ I |-> [ color |-> "#00d4d4", rotations |-> <<
                << <<0,0,0,0>>, <<1,1,1,1>>, <<0,0,0,0>>, <<0,0,0,0>> >>,
                << <<0,0,1,0>>, <<0,0,1,0>>, <<0,0,1,0>>, <<0,0,1,0>> >>,
                << <<0,0,0,0>>, <<0,0,0,0>>, <<1,1,1,1>>, <<0,0,0,0>> >>,
                << <<0,1,0,0>>, <<0,1,0,0>>, <<0,1,0,0>>, <<0,1,0,0>> >> >> ],
      O |-> [ color |-> "#d4a800", rotations |-> <<
                << <<1,1>>, <<1,1>> >> >> ],
      T |-> [ color |-> "#8833cc", rotations |-> <<
                << <<0,1,0>>, <<1,1,1>>, <<0,0,0>> >>,
                << <<0,1,0>>, <<0,1,1>>, <<0,1,0>> >>,
                << <<0,0,0>>, <<1,1,1>>, <<0,1,0>> >>,
                << <<0,1,0>>, <<1,1,0>>, <<0,1,0>> >> >> ],
      S |-> [ color |-> "#00cc44", rotations |-> <<
                << <<0,1,1>>, <<1,1,0>>, <<0,0,0>> >>,
                << <<0,1,0>>, <<0,1,1>>, <<0,0,1>> >>,
                << <<0,0,0>>, <<0,1,1>>, <<1,1,0>> >>,
                << <<1,0,0>>, <<1,1,0>>, <<0,1,0>> >> >> ],
      Z |-> [ color |-> "#cc3333", rotations |-> <<
                << <<1,1,0>>, <<0,1,1>>, <<0,0,0>> >>,
                << <<0,0,1>>, <<0,1,1>>, <<0,1,0>> >>,
                << <<0,0,0>>, <<1,1,0>>, <<0,1,1>> >>,
                << <<0,1,0>>, <<1,1,0>>, <<1,0,0>> >> >> ],
      J |-> [ color |-> "#3366cc", rotations |-> <<
                << <<1,0,0>>, <<1,1,1>>, <<0,0,0>> >>,
                << <<0,1,1>>, <<0,1,0>>, <<0,1,0>> >>,
                << <<0,0,0>>, <<1,1,1>>, <<0,0,1>> >>,
                << <<0,1,0>>, <<0,1,0>>, <<1,1,0>> >> >> ],
      L |-> [ color |-> "#cc6600", rotations |-> <<
                << <<0,0,1>>, <<1,1,1>>, <<0,0,0>> >>,
                << <<0,1,0>>, <<0,1,0>>, <<0,1,1>> >>,
                << <<0,0,0>>, <<1,1,1>>, <<1,0,0>> >>,
                << <<1,1,0>>, <<0,1,0>>, <<0,1,0>> >> >> ] ]

\* Object.keys(TETROMINOES), in insertion order
TetrominoKeys == <<"I", "O", "T", "S", "Z", "J", "L">>

Types == {TetrominoKeys[i] : i \in 1..Len(TetrominoKeys)}

\* TETROMINOES[type].rotations[index], index 0-based as in the source
Rotations(type) == TETROMINOES[type].rotations

RotationAt(type, index) == Rotations(type)[index + 1]

WALL_KICKS ==
    [ JLSTZ |->
        ("0->1" :> << <<0,0>>, <<-1,0>>, <<-1,1>>,  <<0,-2>>, <<-1,-2>> >>) @@
        ("1->2" :> << <<0,0>>, <<1,0>>,  <<1,-1>>,  <<0,2>>,  <<1,2>> >>) @@
        ("2->3" :> << <<0,0>>, <<1,0>>,  <<1,1>>,   <<0,-2>>, <<1,-2>> >>) @@
        ("3->0" :> << <<0,0>>, <<-1,0>>, <<-1,-1>>, <<0,2>>,  <<-1,2>> >>) @@
        ("1->0" :> << <<0,0>>, <<1,0>>,  <<1,1>>,   <<0,-2>>, <<1,-2>> >>) @@
        ("2->1" :> << <<0,0>>, <<-1,0>>, <<-1,-1>>, <<0,2>>,  <<-1,2>> >>) @@
        ("3->2" :> << <<0,0>>, <<-1,0>>, <<-1,1>>,  <<0,-2>>, <<-1,-2>> >>) @@
        ("0->3" :> << <<0,0>>, <<1,0>>,  <<1,-1>>,  <<0,2>>,  <<1,2>> >>),
      I |->
        ("0->1" :> << <<0,0>>, <<-2,0>>, <<1,0>>,  <<-2,-1>>, <<1,2>> >>) @@
        ("1->2" :> << <<0,0>>, <<-1,0>>, <<2,0>>,  <<-1,2>>,  <<2,-1>> >>) @@
        ("2->3" :> << <<0,0>>, <<2,0>>,  <<-1,0>>, <<2,1>>,   <<-1,-2>> >>) @@
        ("3->0" :> << <<0,0>>, <<1,0>>,  <<-2,0>>, <<1,-2>>,  <<-2,1>> >>) @@
        ("1->0" :> << <<0,0>>, <<2,0>>,  <<-1,0>>, <<2,1>>,   <<-1,-2>> >>) @@
        ("2->1" :> << <<0,0>>, <<1,0>>,  <<-2,0>>, <<1,-2>>,  <<-2,1>> >>) @@
        ("3->2" :> << <<0,0>>, <<-2,0>>, <<1,0>>,  <<-2,-1>>, <<1,2>> >>) @@
        ("0->3" :> << <<0,0>>, <<-1,0>>, <<2,0>>,  <<-1,2>>,  <<2,-1>> >>) ]

(***************************************************************************)
(* tetromino.js: a piece instance                                          *)
(***************************************************************************)
\* a null piece reference
NoPiece == [type |-> "null", rotationIndex |-> 0, shape |-> <<>>,
            color |-> "null", x |-> 0, y |-> 0]

\* utils.js deepClone: JSON round trip of a matrix of 0/1 numbers
deepClone(arr) == [r \in 1..Len(arr) |-> [c \in 1..Len(arr[r]) |-> arr[r][c]]]

\* a constructor that spawns every type at row 0
Tetromino_spawnRowZero(type) ==
    [type          |-> type,
     rotationIndex |-> 0,
     shape         |-> deepClone(RotationAt(type, 0)),
     color         |-> TETROMINOES[type].color,
     x             |-> IF type = "O" THEN 4 ELSE 3,
     y             |-> 0]

\* new Tetromino(type)
Tetromino(type) ==
    [type          |-> type,
     rotationIndex |-> 0,
     shape         |-> deepClone(RotationAt(type, 0)),
     color         |-> TETROMINOES[type].color,
     x             |-> IF type = "O" THEN 4 ELSE 3,
     y             |-> IF type = "I" THEN -1 ELSE 0]

\* getWallKicks that reads the JLSTZ table for every type
getWallKicks_oneTable(piece, fromRotation, toRotation) ==
    IF piece.type = "O" THEN << <<0, 0>> >>
    ELSE LET kickData == WALL_KICKS.JLSTZ
             key      == ToString(fromRotation) \o "->" \o ToString(toRotation)
         IN  IF key \in DOMAIN kickData THEN kickData[key] ELSE << <<0, 0>> >>

\* Tetromino.getWallKicks(fromRotation, toRotation)
getWallKicks(piece, fromRotation, toRotation) ==
    IF piece.type = "O" THEN << <<0, 0>> >>
    ELSE LET kickData == IF piece.type = "I" THEN WALL_KICKS.I ELSE WALL_KICKS.JLSTZ
             key      == ToString(fromRotation) \o "->" \o ToString(toRotation)
         IN  IF key \in DOMAIN kickData THEN kickData[key] ELSE << <<0, 0>> >>

\* the occupied cells <<column, row>> of a shape placed at (x, y)
Cells(shape, x, y) ==
    {<<x + col, y + row>> : <<row, col>> \in
        {rc \in (0..Len(shape)-1) \X (0..Len(shape)-1) :
            rc[2] < Len(shape[rc[1]+1]) /\ shape[rc[1]+1][rc[2]+1] # 0}}

(***************************************************************************)
(* tetromino.js: BagRandomizer                                             *)
(***************************************************************************)
\* a swap that loses a[i]: a[i] = a[j] alone
Swap_overwrite(a, i, j) == [a EXCEPT ![i + 1] = a[j + 1]]

\* [a[i], a[j]] = [a[j], a[i]] on a sequence, i and j 0-based
Swap(a, i, j) == [a EXCEPT ![i + 1] = a[j + 1], ![j + 1] = a[i + 1]]

\* The Fisher-Yates loop from index i down to 1; js[i] is the value of
\* Math.floor(Math.random() * (i + 1)) drawn at index i.
RECURSIVE shuffleFrom(_, _, _)
shuffleFrom(a, i, js) ==
    IF i > 0 THEN shuffleFrom(Swap(a, i, js[i]), i - 1, js) ELSE a

\* BagRandomizer.refillBag with the random draws js
refillBag(js) == shuffleFrom(TetrominoKeys, Len(TetrominoKeys) - 1, js)

\* every outcome of the random draws of one shuffle
AllDraws == {js \in [1..(Len(TetrominoKeys) - 1) -> 0..(Len(TetrominoKeys) - 1)] :
                \A i \in DOMAIN js : js[i] <= i}

\* new BagRandomizer()
BagRandomizer(js) == [bag |-> refillBag(js)]

\* BagRandomizer.next: [rz |-> the randomizer after the call, type |-> the result]
next(r, js) ==
    LET bag == IF Len(r.bag) = 0 THEN refillBag(js) ELSE r.bag
    IN  [rz |-> [bag |-> SubSeq(bag, 1, Len(bag) - 1)], type |-> bag[Len(bag)]]

\* peek written as a copy of next: it pops the type it returns
peek_pops(r, js) ==
    LET bag == IF Len(r.bag) = 0 THEN refillBag(js) ELSE r.bag
    IN  [rz |-> [bag |-> SubSeq(bag, 1, Len(bag) - 1)], type |-> bag[Len(bag)]]

\* BagRandomizer.peek
peek(r, js) ==
    LET bag == IF Len(r.bag) = 0 THEN refillBag(js) ELSE r.bag
    IN  [rz |-> [bag |-> bag], type |-> bag[Len(bag)]]

(***************************************************************************)
(* board.js: Board                                                         *)
(***************************************************************************)
\* constructor(width = 10, height = 20)
BOARD_WIDTH == 10

BOARD_HEIGHT == 20

\* Board.createEmptyGrid
createEmptyGrid ==
    [row \in 0..(BOARD_HEIGHT - 1) |-> [col \in 0..(BOARD_WIDTH - 1) |-> "null"]]

\* new Board(), and the board after Board.reset
Board == [width |-> BOARD_WIDTH, height |-> BOARD_HEIGHT,
          grid |-> createEmptyGrid, clearedLines |-> <<>>]

\* isValidPosition that reads the grid for a cell above the board as for row 0
isValidPosition_checksAboveAsTopRow(board, tetromino, offsetX, offsetY) ==
    \A row \in 0..(Len(tetromino.shape) - 1) :
        \A col \in 0..(Len(tetromino.shape[row + 1]) - 1) :
            tetromino.shape[row + 1][col + 1] # 0 =>
                LET newX == tetromino.x + col + offsetX
                    newY == tetromino.y + row + offsetY
                IN  /\ ~(newX < 0 \/ newX >= board.width)
                    /\ ~(newY >= board.height)
                    /\ ~(board.grid[IF newY >= 0 THEN newY ELSE 0][newX] # "null")

\* Board.isValidPosition(tetromino, offsetX, offsetY); only shape, x and y
\* of the tetromino are read
isValidPosition(board, tetromino, offsetX, offsetY) ==
    \A row \in 0..(Len(tetromino.shape) - 1) :
        \A col \in 0..(Len(tetromino.shape[row + 1]) - 1) :
            tetromino.shape[row + 1][col + 1] # 0 =>
                LET newX == tetromino.x + col + offsetX
                    newY == tetromino.y + row + offsetY
                IN  /\ ~(newX < 0 \/ newX >= board.width)
                    /\ ~(newY >= board.height)
                    /\ ~(newY >= 0 /\ board.grid[newY][newX] # "null")

\* isValidRotation testing the shape the piece has now, not the rotated one
isValidRotation_currentShape(board, tetromino, newRotationIndex, kickX, kickY) ==
    isValidPosition(board, tetromino, kickX, kickY)

\* Board.isValidRotation(tetromino, newRotationIndex, kickX, kickY)
isValidRotation(board, tetromino, newRotationIndex, kickX, kickY) ==
    LET tempTetromino == [x     |-> tetromino.x + kickX,
                          y     |-> tetromino.y + kickY,
                          shape |-> RotationAt(tetromino.type, newRotationIndex)]
    IN  isValidPosition(board, tempTetromino, 0, 0)

\* Board.placeTetromino(tetromino): the grid after the call
placeTetromino(board, tetromino) ==
    LET cells == Cells(tetromino.shape, tetromino.x, tetromino.y)
    IN  [row \in 0..(board.height - 1) |->
            [col \in 0..(board.width - 1) |->
                IF <<col, row>> \in cells THEN tetromino.color
                ELSE board.grid[row][col]]]

\* a row counted as full as soon as one cell is not null (some, not every)
IsFullRow_some(gridRow) == \E col \in DOMAIN gridRow : gridRow[col] # "null"

\* a row counted as full only when its cells are all of one color
IsFullRow_oneColor(gridRow) ==
    \A col \in DOMAIN gridRow : gridRow[col] # "null" /\ gridRow[col] = gridRow[0]

\* a row with no null cell
IsFullRow(gridRow) == \A col \in DOMAIN gridRow : gridRow[col] # "null"

\* the scan appending the kept rows (push) where the code puts them in front
RECURSIVE clearLinesScan_push(_, _, _, _)
clearLinesScan_push(board, row, clearedLines, newGrid) ==
    IF row < 0 THEN [clearedLines |-> clearedLines, newGrid |-> newGrid]
    ELSE IF IsFullRow(board.grid[row])
         THEN clearLinesScan_push(board, row - 1, Append(clearedLines, row), newGrid)
         ELSE clearLinesScan_push(board, row - 1, clearedLines,
                                  Append(newGrid, board.grid[row]))

\* the scan of Board.clearLines from `row` up to row 0: newGrid holds the kept
\* rows (unshift puts a row in front), clearedLines the removed row indices
RECURSIVE clearLinesScan(_, _, _, _)
clearLinesScan(board, row, clearedLines, newGrid) ==
    IF row < 0 THEN [clearedLines |-> clearedLines, newGrid |-> newGrid]
    ELSE IF IsFullRow(board.grid[row])
         THEN clearLinesScan(board, row - 1, Append(clearedLines, row), newGrid)
         ELSE clearLinesScan(board, row - 1, clearedLines,
                             <<board.grid[row]>> \o newGrid)

\* the loop that adds empty rows at the top until the height is restored
RECURSIVE padRows(_, _)
padRows(board, newGrid) ==
    IF Len(newGrid) < board.height
    THEN padRows(board, <<[col \in 0..(board.width - 1) |-> "null"]>> \o newGrid)
    ELSE newGrid

\* Board.clearLines: [board |-> the board after the call, linesCleared |-> result]
clearLines(board) ==
    LET scan    == clearLinesScan(board, board.height - 1, <<>>, <<>>)
        newGrid == padRows(board, scan.newGrid)
    IN  [board |-> [board EXCEPT
                      !.clearedLines = scan.clearedLines,
                      !.grid = [row \in 0..(Len(newGrid) - 1) |-> newGrid[row + 1]]],
         linesCleared |-> Len(scan.clearedLines)]

\* Board.getGhostPosition(tetromino)
RECURSIVE ghostFrom(_, _, _)
ghostFrom(board, tetromino, ghostY) ==
    IF isValidPosition(board, tetromino, 0, ghostY - tetromino.y + 1)
    THEN ghostFrom(board, tetromino, ghostY + 1)
    ELSE ghostY

getGhostPosition(board, tetromino) == ghostFrom(board, tetromino, tetromino.y)

(***************************************************************************)
(* game.js: Game.  An operation takes the world w = [game, timers,         *)
(* nextTimerId, events, ret, op] and gives the world after the call.       *)
(***************************************************************************)
\* BASE_POINTS[1..4]
BASE_POINTS == <<40, 100, 300, 1200>>

BASE_POINTS_softDrop == 1

BASE_POINTS_hardDrop == 2

SPEED_CURVE ==
    (0 :> 800) @@ (1 :> 717) @@ (2 :> 633) @@ (3 :> 550) @@ (4 :> 467) @@
    (5 :> 383) @@ (6 :> 300) @@ (7 :> 217) @@ (8 :> 133) @@ (9 :> 100) @@
    (10 :> 83) @@ (13 :> 67) @@ (16 :> 50) @@ (19 :> 33) @@ (29 :> 17)

\* new Game(): the constructor's BagRandomizer is shuffled with the draws js
Game(js) ==
    [board         |-> Board,
     bagRandomizer |-> BagRandomizer(js),
     currentPiece  |-> NoPiece,
     nextPiece     |-> NoPiece,
     score         |-> 0,
     level         |-> 1,
     lines         |-> 0,
     state         |-> "menu",
     dropInterval  |-> 0,
     lockTimer     |-> 0,
     isLocking     |-> FALSE]

\* the world right after new Game()
World(js) == [game |-> Game(js), timers |-> {}, nextTimerId |-> 1,
              events |-> <<>>, ret |-> "undefined", op |-> "new"]

\* a call of a collaborator (a callback the game fires, a host timer call, the
\* board reset), recorded with the statistics the game holds at that moment
Emit(w, ev, args) ==
    [w EXCEPT !.events = Append(@, [ev |-> ev, args |-> args,
                                    score |-> w.game.score,
                                    level |-> w.game.level,
                                    lines |-> w.game.lines])]

Return(w, value) == [w EXCEPT !.ret = value]

\* Game.getDropSpeed
getDropSpeed(g) ==
    LET level == g.level - 1
    IN  IF level >= 29 THEN SPEED_CURVE[29]
        ELSE IF level >= 19 THEN SPEED_CURVE[19]
        ELSE IF level >= 16 THEN SPEED_CURVE[16]
        ELSE IF level >= 13 THEN SPEED_CURVE[13]
        ELSE IF level >= 10 THEN SPEED_CURVE[10]
        ELSE IF level \in DOMAIN SPEED_CURVE THEN SPEED_CURVE[level]
        ELSE SPEED_CURVE[9]

\* stopDropTimer that forgets the handle without cancelling the timer
stopDropTimer_noClear(w) == [w EXCEPT !.game.dropInterval = 0]

\* Game.stopDropTimer
stopDropTimer(w) ==
    IF w.game.dropInterval # 0
    THEN LET c == Emit(w, "clearInterval", <<w.game.dropInterval>>)
         IN  [c EXCEPT !.timers = {t \in @ : t.id # w.game.dropInterval},
                       !.game.dropInterval = 0]
    ELSE w

\* startDropTimer that does not stop the running timer first
startDropTimer_noStop(w) ==
    LET id == w.nextTimerId
        ms == getDropSpeed(w.game)
        t  == Emit(w, "setInterval", <<id, ms>>)
    IN  [t EXCEPT !.timers = @ \cup {[id |-> id, ms |-> ms]},
                  !.nextTimerId = id + 1,
                  !.game.dropInterval = id]

\* Game.startDropTimer
startDropTimer(w) ==
    LET s  == stopDropTimer(w)
        id == s.nextTimerId
        ms == getDropSpeed(s.game)
        t  == Emit(s, "setInterval", <<id, ms>>)
    IN  [t EXCEPT !.timers = @ \cup {[id |-> id, ms |-> ms]},
                  !.nextTimerId = id + 1,
                  !.game.dropInterval = id]

\* updateDropSpeed that leaves the running timer alone
updateDropSpeed_keepsTimer(w) == w

\* Game.updateDropSpeed
updateDropSpeed(w) == startDropTimer(w)

\* Game.resetLockDelay
resetLockDelay(w) ==
    IF w.game.isLocking /\ w.game.lockTimer # 0
    THEN LET c == Emit(w, "clearTimeout", <<w.game.lockTimer>>)
         IN  [c EXCEPT !.game.lockTimer = 0, !.game.isLocking = FALSE]
    ELSE w

\* gameOver that leaves the gravity timer running
gameOver_timerRunning(w) ==
    LET a == [w EXCEPT !.game.state = "gameover"]
    IN  Emit(a, "onGameOver", <<a.game.score, a.game.level, a.game.lines>>)

\* Game.gameOver
gameOver(w) ==
    LET a == stopDropTimer([w EXCEPT !.game.state = "gameover"])
        b == IF a.game.lockTimer # 0
             THEN [Emit(a, "clearTimeout", <<a.game.lockTimer>>)
                      EXCEPT !.game.lockTimer = 0]
             ELSE a
    IN  Emit(b, "onGameOver", <<b.game.score, b.game.level, b.game.lines>>)

\* scoring with the level computed as floor(lines / 10), without the + 1
scoreLines_levelWithoutOne(w, linesCleared) ==
    IF linesCleared > 0
    THEN LET basePoints == BASE_POINTS[linesCleared]
             points     == basePoints * w.game.level
             a == [w EXCEPT !.game.score = @ + points,
                            !.game.lines = @ + linesCleared]
             b == Emit(a, "onLineClear", <<linesCleared, points>>)
             c == Emit(b, "onScoreUpdate", <<b.game.score>>)
             newLevel == c.game.lines \div 10
         IN  IF newLevel > c.game.level
             THEN LET d == updateDropSpeed([c EXCEPT !.game.level = newLevel])
                  IN  Emit(d, "onLevelUp", <<d.game.level>>)
             ELSE c
    ELSE w

\* scoring with base points times (level + 1), as the comments of lockPiece read
scoreLines_levelPlusOne(w, linesCleared) ==
    IF linesCleared > 0
    THEN LET basePoints == BASE_POINTS[linesCleared]
             points     == basePoints * (w.game.level + 1)
             a == [w EXCEPT !.game.score = @ + points,
                            !.game.lines = @ + linesCleared]
             b == Emit(a, "onLineClear", <<linesCleared, points>>)
             c == Emit(b, "onScoreUpdate", <<b.game.score>>)
             newLevel == (c.game.lines \div 10) + 1
         IN  IF newLevel > c.game.level
             THEN LET d == updateDropSpeed([c EXCEPT !.game.level = newLevel])
                  IN  Emit(d, "onLevelUp", <<d.game.level>>)
             ELSE c
    ELSE w

\* scoring that fires onLineClear before it adds the points and the lines
scoreLines_notifiesFirst(w, linesCleared) ==
    IF linesCleared > 0
    THEN LET basePoints == BASE_POINTS[linesCleared]
             points     == basePoints * w.game.level
             a == Emit(w, "onLineClear", <<linesCleared, points>>)
             b == [a EXCEPT !.game.score = @ + points,
                            !.game.lines = @ + linesCleared]
             c == Emit(b, "onScoreUpdate", <<b.game.score>>)
             newLevel == (c.game.lines \div 10) + 1
         IN  IF newLevel > c.game.level
             THEN LET d == updateDropSpeed([c EXCEPT !.game.level = newLevel])
                  IN  Emit(d, "onLevelUp", <<d.game.level>>)
             ELSE c
    ELSE w

\* Game.lockPiece lines 261-280: scoring and level after clearLines returned
scoreLines(w, linesCleared) ==
    IF linesCleared > 0
    THEN LET basePoints == BASE_POINTS[linesCleared]
             points     == basePoints * w.game.level
             a == [w EXCEPT !.game.score = @ + points,
                            !.game.lines = @ + linesCleared]
             b == Emit(a, "onLineClear", <<linesCleared, points>>)
             c == Emit(b, "onScoreUpdate", <<b.game.score>>)
             newLevel == (c.game.lines \div 10) + 1
         IN  IF newLevel > c.game.level
             THEN LET d == updateDropSpeed([c EXCEPT !.game.level = newLevel])
                  IN  Emit(d, "onLevelUp", <<d.game.level>>)
             ELSE c
    ELSE w

\* lockPiece that promotes the next piece but draws no new one
lockPiece_noNextDraw(w, js) ==
    IF w.game.currentPiece = NoPiece THEN w
    ELSE LET a  == [w EXCEPT !.game.board.grid =
                                placeTetromino(w.game.board, w.game.currentPiece)]
             b  == Emit(a, "onPiecePlace", <<>>)
             cl == clearLines(b.game.board)
             c  == scoreLines([b EXCEPT !.game.board = cl.board], cl.linesCleared)
             d  == [c EXCEPT !.game.currentPiece = c.game.nextPiece,
                             !.game.nextPiece = NoPiece,
                             !.game.isLocking = FALSE]
         IN  IF ~isValidPosition(d.game.board, d.game.currentPiece, 0, 0)
             THEN gameOver(d)
             ELSE d

\* lockPiece that spawns the piece it draws and keeps the waiting next piece
lockPiece_spawnsDrawn(w, js) ==
    IF w.game.currentPiece = NoPiece THEN w
    ELSE LET a  == [w EXCEPT !.game.board.grid =
                                placeTetromino(w.game.board, w.game.currentPiece)]
             b  == Emit(a, "onPiecePlace", <<>>)
             cl == clearLines(b.game.board)
             c  == scoreLines([b EXCEPT !.game.board = cl.board], cl.linesCleared)
             n  == next(c.game.bagRandomizer, js)
             d  == [c EXCEPT !.game.currentPiece = Tetromino(n.type),
                             !.game.bagRandomizer = n.rz,
                             !.game.isLocking = FALSE]
         IN  IF ~isValidPosition(d.game.board, d.game.currentPiece, 0, 0)
             THEN gameOver(d)
             ELSE d

\* Game.lockPiece; js are the random draws of the refill its next() may need
lockPiece(w, js) ==
    IF w.game.currentPiece = NoPiece THEN w
    ELSE LET a  == [w EXCEPT !.game.board.grid =
                                placeTetromino(w.game.board, w.game.currentPiece)]
             b  == Emit(a, "onPiecePlace", <<>>)
             cl == clearLines(b.game.board)
             c  == scoreLines([b EXCEPT !.game.board = cl.board], cl.linesCleared)
             n  == next(c.game.bagRandomizer, js)
             d  == [c EXCEPT !.game.currentPiece = c.game.nextPiece,
                             !.game.nextPiece = Tetromino(n.type),
                             !.game.bagRandomizer = n.rz,
                             !.game.isLocking = FALSE]
         IN  IF ~isValidPosition(d.game.board, d.game.currentPiece, 0, 0)
             THEN gameOver(d)
             ELSE d

\* start that does not reset the line count
start_keepsLines(w, js) ==
    LET a  == Emit(w, "board.reset", <<>>)
        n1 == next(BagRandomizer(js), js)
        n2 == next(n1.rz, js)
        b  == [a EXCEPT !.game.board = Board,
                        !.game.score = 0,
                        !.game.level = 1,
                        !.game.isLocking = FALSE,
                        !.game.currentPiece = Tetromino(n1.type),
                        !.game.nextPiece = Tetromino(n2.type),
                        !.game.bagRandomizer = n2.rz,
                        !.game.state = "playing"]
    IN  Return(startDropTimer(b), "undefined")

\* Game.start; js are the random draws of the new BagRandomizer
start(w, js) ==
    LET a  == Emit(w, "board.reset", <<>>)
        n1 == next(BagRandomizer(js), js)
        n2 == next(n1.rz, js)
        b  == [a EXCEPT !.game.board = Board,
                        !.game.score = 0,
                        !.game.level = 1,
                        !.game.lines = 0,
                        !.game.isLocking = FALSE,
                        !.game.currentPiece = Tetromino(n1.type),
                        !.game.nextPiece = Tetromino(n2.type),
                        !.game.bagRandomizer = n2.rz,
                        !.game.state = "playing"]
    IN  Return(startDropTimer(b), "undefined")

\* moveLeft guarded by the piece alone, not by the state
moveLeft_noStateGuard(w) ==
    IF w.game.currentPiece = NoPiece
    THEN Return(w, "false")
    ELSE IF isValidPosition(w.game.board, w.game.currentPiece, -1, 0)
         THEN Return(resetLockDelay([w EXCEPT !.game.currentPiece.x = @ - 1]), "true")
         ELSE Return(w, "false")

\* Game.moveLeft
moveLeft(w) ==
    IF w.game.state # "playing" \/ w.game.currentPiece = NoPiece
    THEN Return(w, "false")
    ELSE IF isValidPosition(w.game.board, w.game.currentPiece, -1, 0)
         THEN Return(resetLockDelay([w EXCEPT !.game.currentPiece.x = @ - 1]), "true")
         ELSE Return(w, "false")

\* moveRight whose assignment was copied from moveLeft
moveRight_movesLeft(w) ==
    IF w.game.state # "playing" \/ w.game.currentPiece = NoPiece
    THEN Return(w, "false")
    ELSE IF isValidPosition(w.game.board, w.game.currentPiece, 1, 0)
         THEN Return(resetLockDelay([w EXCEPT !.game.currentPiece.x = @ - 1]), "true")
         ELSE Return(w, "false")

\* Game.moveRight
moveRight(w) ==
    IF w.game.state # "playing" \/ w.game.currentPiece = NoPiece
    THEN Return(w, "false")
    ELSE IF isValidPosition(w.game.board, w.game.currentPiece, 1, 0)
         THEN Return(resetLockDelay([w EXCEPT !.game.currentPiece.x = @ + 1]), "true")
         ELSE Return(w, "false")

\* moveDown that scores the row it moves, as softDrop does
moveDown_scoresRow(w) ==
    IF w.game.state # "playing" \/ w.game.currentPiece = NoPiece
    THEN Return(w, "false")
    ELSE IF isValidPosition(w.game.board, w.game.currentPiece, 0, 1)
         THEN Return([w EXCEPT !.game.currentPiece.y = @ + 1,
                               !.game.score = @ + BASE_POINTS_softDrop], "true")
         ELSE Return(w, "false")

\* Game.moveDown
moveDown(w) ==
    IF w.game.state # "playing" \/ w.game.currentPiece = NoPiece
    THEN Return(w, "false")
    ELSE IF isValidPosition(w.game.board, w.game.currentPiece, 0, 1)
         THEN Return([w EXCEPT !.game.currentPiece.y = @ + 1], "true")
         ELSE Return(w, "false")

\* softDrop that scores whether or not the piece moved
softDrop_alwaysScores(w) ==
    LET m == moveDown(w)
        a == [m EXCEPT !.game.score = @ + BASE_POINTS_softDrop]
    IN  Emit(a, "onScoreUpdate", <<a.game.score>>)

\* softDrop that locks the piece when it cannot move down, as drop does
softDrop_locksOnFailure(w) ==
    LET m == moveDown(w)
    IN  IF m.ret = "true"
        THEN LET a == [m EXCEPT !.game.score = @ + BASE_POINTS_softDrop]
             IN  Return(Emit(a, "onScoreUpdate", <<a.game.score>>), "true")
        ELSE IF m.game.state = "playing"
             THEN Return(lockPiece(m, [i \in 1..6 |-> i]), "false")
             ELSE Return(m, "false")

\* Game.softDrop
softDrop(w) ==
    LET m == moveDown(w)
    IN  IF m.ret = "true"
        THEN LET a == [m EXCEPT !.game.score = @ + BASE_POINTS_softDrop]
             IN  Return(Emit(a, "onScoreUpdate", <<a.game.score>>), "true")
        ELSE Return(m, "false")

\* the while loop of Game.hardDrop: the world after it, dropDistance rows lower
RECURSIVE hardDropLoop(_, _)
hardDropLoop(w, dropDistance) ==
    IF isValidPosition(w.game.board, w.game.currentPiece, 0, 1)
    THEN hardDropLoop([w EXCEPT !.game.currentPiece.y = @ + 1], dropDistance + 1)
    ELSE [w |-> w, dropDistance |-> dropDistance]

\* hardDrop guarded by the piece alone, not by the state
hardDrop_noStateGuard(w, js) ==
    IF w.game.currentPiece = NoPiece
    THEN Return(w, "undefined")
    ELSE LET l == hardDropLoop(w, 0)
             a == [l.w EXCEPT !.game.score = @ + l.dropDistance * BASE_POINTS_hardDrop]
             b == Emit(a, "onScoreUpdate", <<a.game.score>>)
         IN  Return(lockPiece(b, js), "undefined")

\* hardDrop that moves and scores but leaves the locking to the next gravity tick
hardDrop_noLock(w, js) ==
    IF w.game.state # "playing" \/ w.game.currentPiece = NoPiece
    THEN Return(w, "undefined")
    ELSE LET l == hardDropLoop(w, 0)
             a == [l.w EXCEPT !.game.score = @ + l.dropDistance * BASE_POINTS_hardDrop]
             b == Emit(a, "onScoreUpdate", <<a.game.score>>)
         IN  Return(b, "undefined")

\* Game.hardDrop
hardDrop(w, js) ==
    IF w.game.state # "playing" \/ w.game.currentPiece = NoPiece
    THEN Return(w, "undefined")
    ELSE LET l == hardDropLoop(w, 0)
             a == [l.w EXCEPT !.game.score = @ + l.dropDistance * BASE_POINTS_hardDrop]
             b == Emit(a, "onScoreUpdate", <<a.game.score>>)
         IN  Return(lockPiece(b, js), "undefined")

\* the kick loop applying the column offset of the kick but not its row offset
RECURSIVE tryKicks_noKickY(_, _, _, _)
tryKicks_noKickY(w, newRotation, kicks, k) ==
    IF k > Len(kicks) THEN Return(w, "false")
    ELSE LET kickX == kicks[k][1]
             kickY == kicks[k][2]
             ok    == isValidRotation(w.game.board, w.game.currentPiece,
                                      newRotation, kickX, kickY)
             a     == Emit(w, "isValidRotation",
                           <<kickX, kickY, IF ok THEN 1 ELSE 0>>)
         IN  IF ok
             THEN Return(resetLockDelay(
                      [a EXCEPT !.game.currentPiece.rotationIndex = newRotation,
                                !.game.currentPiece.shape =
                                    deepClone(RotationAt(a.game.currentPiece.type,
                                                         newRotation)),
                                !.game.currentPiece.x = @ + kickX]), "true")
             ELSE tryKicks_noKickY(a, newRotation, kicks, k + 1)

\* the kick loop that assigns the new rotation index but not the new shape
RECURSIVE tryKicks_keepsShape(_, _, _, _)
tryKicks_keepsShape(w, newRotation, kicks, k) ==
    IF k > Len(kicks) THEN Return(w, "false")
    ELSE LET kickX == kicks[k][1]
             kickY == kicks[k][2]
             ok    == isValidRotation(w.game.board, w.game.currentPiece,
                                      newRotation, kickX, kickY)
             a     == Emit(w, "isValidRotation",
                           <<kickX, kickY, IF ok THEN 1 ELSE 0>>)
         IN  IF ok
             THEN Return(resetLockDelay(
                      [a EXCEPT !.game.currentPiece.rotationIndex = newRotation,
                                !.game.currentPiece.x = @ + kickX,
                                !.game.currentPiece.y = @ + kickY]), "true")
             ELSE tryKicks_keepsShape(a, newRotation, kicks, k + 1)

\* the for loop of Game.rotate over kicks[k..]: the first valid kick is applied;
\* every Board.isValidRotation call is recorded with its offset and result
RECURSIVE tryKicks(_, _, _, _)
tryKicks(w, newRotation, kicks, k) ==
    IF k > Len(kicks) THEN Return(w, "false")
    ELSE LET kickX == kicks[k][1]
             kickY == kicks[k][2]
             ok    == isValidRotation(w.game.board, w.game.currentPiece,
                                      newRotation, kickX, kickY)
             a     == Emit(w, "isValidRotation",
                           <<kickX, kickY, IF ok THEN 1 ELSE 0>>)
         IN  IF ok
             THEN Return(resetLockDelay(
                      [a EXCEPT !.game.currentPiece.rotationIndex = newRotation,
                                !.game.currentPiece.shape =
                                    deepClone(RotationAt(a.game.currentPiece.type,
                                                         newRotation)),
                                !.game.currentPiece.x = @ + kickX,
                                !.game.currentPiece.y = @ + kickY]), "true")
             ELSE tryKicks(a, newRotation, kicks, k + 1)

\* rotate that turns clockwise whatever the direction
rotate_alwaysClockwise(w, direction) ==
    IF w.game.state # "playing" \/ w.game.currentPiece = NoPiece
    THEN Return(w, "false")
    ELSE IF w.game.currentPiece.type = "O" THEN Return(w, "false")
    ELSE LET originalRotation == w.game.currentPiece.rotationIndex
             rotations   == Rotations(w.game.currentPiece.type)
             newRotation == (originalRotation + 1 + Len(rotations))
                                % Len(rotations)
             kicks == getWallKicks(w.game.currentPiece, originalRotation, newRotation)
         IN  tryKicks(w, newRotation, kicks, 1)

\* Game.rotate(direction)
rotate(w, direction) ==
    IF w.game.state # "playing" \/ w.game.currentPiece = NoPiece
    THEN Return(w, "false")
    ELSE IF w.game.currentPiece.type = "O" THEN Return(w, "false")
    ELSE LET originalRotation == w.game.currentPiece.rotationIndex
             rotations   == Rotations(w.game.currentPiece.type)
             newRotation == (originalRotation + direction + Len(rotations))
                                % Len(rotations)
             kicks == getWallKicks(w.game.currentPiece, originalRotation, newRotation)
         IN  tryKicks(w, newRotation, kicks, 1)

\* pause with a plain else: every state but playing resumes
pause_elseResumes(w) ==
    IF w.game.state = "playing"
    THEN Return(stopDropTimer([w EXCEPT !.game.state = "paused"]), "undefined")
    ELSE Return(startDropTimer([w EXCEPT !.game.state = "playing"]), "undefined")

\* pause that leaves the gravity timer running while paused
pause_keepsTimer(w) ==
    IF w.game.state = "playing"
    THEN Return([w EXCEPT !.game.state = "paused"], "undefined")
    ELSE IF w.game.state = "paused"
    THEN Return(startDropTimer([w EXCEPT !.game.state = "playing"]), "undefined")
    ELSE Return(w, "undefined")

\* pause that moves the piece down one row when it resumes
pause_resumeMovesDown(w) ==
    IF w.game.state = "playing"
    THEN Return(stopDropTimer([w EXCEPT !.game.state = "paused"]), "undefined")
    ELSE IF w.game.state = "paused"
    THEN Return(moveDown(startDropTimer([w EXCEPT !.game.state = "playing"])),
                "undefined")
    ELSE Return(w, "undefined")

\* Game.pause
pause(w) ==
    IF w.game.state = "playing"
    THEN Return(stopDropTimer([w EXCEPT !.game.state = "paused"]), "undefined")
    ELSE IF w.game.state = "paused"
    THEN Return(startDropTimer([w EXCEPT !.game.state = "playing"]), "undefined")
    ELSE Return(w, "undefined")

\* drop that only tries to move down and never locks
drop_noLock(w, js) == moveDown(w)

\* drop that arms the lock delay on a failed move down instead of locking
drop_armsLockDelay(w, js) ==
    LET m == moveDown(w)
    IN  IF m.ret # "true"
        THEN IF m.game.isLocking THEN lockPiece(m, js)
             ELSE [Emit(m, "setTimeout", <<m.nextTimerId, 500>>)
                      EXCEPT !.game.isLocking = TRUE,
                             !.game.lockTimer = m.nextTimerId,
                             !.nextTimerId = @ + 1]
        ELSE m

\* Game.drop
drop(w, js) ==
    LET m == moveDown(w)
    IN  IF m.ret # "true" THEN lockPiece(m, js) ELSE m

\* the callback lifting a piece that cannot move down back to its spawn row
dropTimerCallback_liftsPiece(w, js) ==
    LET moved == moveDown(w)
    IN  Return(IF w.game.state # "playing" THEN w
               ELSE IF moved.ret = "true" THEN moved
               ELSE [w EXCEPT !.game.currentPiece.y =
                                  Tetromino(w.game.currentPiece.type).y],
               "undefined")

\* the setInterval callback of Game.startDropTimer
dropTimerCallback(w, js) ==
    Return(IF w.game.state = "playing" THEN drop(w, js) ELSE w, "undefined")

\* Game.getGhostY
getGhostY(g) ==
    IF g.currentPiece = NoPiece THEN 0
    ELSE getGhostPosition(g.board, g.currentPiece)

\* getGhostY() that counts the rows by moving the piece itself down
callGetGhostY_movesPiece(w) ==
    IF w.game.currentPiece = NoPiece THEN Return(w, 0)
    ELSE Return([w EXCEPT !.game.currentPiece.y = getGhostY(w.game)], getGhostY(w.game))

\* a call of game.getGhostY(): the world after it, the row returned
callGetGhostY(w) == Return(w, getGhostY(w.game))

\* Game.isAtBottom
isAtBottom(g) ==
    IF g.currentPiece = NoPiece THEN FALSE
    ELSE ~isValidPosition(g.board, g.currentPiece, 0, 1)

(***************************************************************************)
(* The calls.  Every call starts with an empty event record.               *)
(***************************************************************************)
Call(w, op) == [w EXCEPT !.events = <<>>, !.op = op]

\* the draws j = i of a shuffle that swaps nothing
IdDraws == [i \in 1..(Len(TetrominoKeys) - 1) |-> i]

\* the shuffles explored in a game session
GameDraws ==
    {js \in AllDraws :
        \A i \in DOMAIN js : i <= Len(TetrominoKeys) - 1 - ShuffleDraws => js[i] = i}

\* the draws a call's next() can consume: a shuffle happens on an empty bag only
DrawsFor(g) == IF Len(g.bagRandomizer.bag) = 0 THEN GameDraws ELSE {IdDraws}

(***************************************************************************)
(* A recorded session.  The initial states of the specification are the    *)
(* constructed game and states of this session: it starts a game and       *)
(* places 98 pieces, clearing 1, 2, 3 and 4 lines at a time, passing       *)
(* levels 1 to 4, and ends in game over.  Piece k is rotated clockwise     *)
(* Playthrough[k][1] times, shifted by Playthrough[k][2] columns and       *)
(* dropped; every shuffle of the session draws IdDraws.                    *)
(***************************************************************************)
Playthrough ==
    <<
        <<0,3>>, <<0,-3>>, <<0,-1>>, <<1,0>>, <<2,-3>>, <<0,2>>, <<1,3>>,
        <<2,2>>, <<2,-2>>, <<1,-4>>, <<1,-1>>, <<0,2>>, <<0,0>>, <<1,4>>,
        <<3,-2>>, <<1,-4>>, <<1,3>>, <<1,-2>>, <<2,2>>, <<0,-4>>, <<0,2>>,
        <<0,3>>, <<1,0>>, <<1,3>>, <<1,-2>>, <<0,0>>, <<0,-4>>, <<1,4>>,
        <<1,-2>>, <<1,2>>, <<1,-4>>, <<1,0>>, <<0,2>>, <<0,0>>, <<1,4>>,
        <<3,-1>>, <<3,5>>, <<0,3>>, <<0,-1>>, <<1,-4>>, <<0,-3>>, <<1,3>>,
        <<0,2>>, <<0,0>>, <<1,2>>, <<0,1>>, <<1,-4>>, <<0,-1>>, <<1,4>>,
        <<3,-2>>, <<2,3>>, <<1,-4>>, <<1,0>>, <<3,5>>, <<0,-2>>, <<0,-2>>,
        <<1,2>>, <<1,1>>, <<1,4>>, <<0,0>>, <<1,-2>>, <<0,-1>>, <<1,2>>,
        <<3,4>>, <<1,-4>>, <<1,-2>>, <<1,1>>, <<0,3>>, <<0,0>>, <<1,-4>>,
        <<3,2>>, <<1,-4>>, <<1,-3>>, <<1,4>>, <<1,3>>, <<0,-1>>, <<1,-5>>,
        <<3,5>>, <<1,-3>>, <<0,1>>, <<1,-2>>, <<1,-4>>, <<0,0>>, <<0,3>>,
        <<0,3>>, <<2,1>>, <<1,3>>, <<1,-4>>, <<3,-1>>, <<0,-3>>, <<0,1>>,
        <<2,-3>>, <<2,4>>, <<1,-2>>, <<0,-1>>, <<1,-1>>, <<0,-2>>, <<0,-3>>
    >>

RECURSIVE rotateTimes(_, _)
rotateTimes(w, n) ==
    IF n = 0 THEN w ELSE rotateTimes(rotate(Call(w, "rotate"), 1), n - 1)

RECURSIVE shiftBy(_, _)
shiftBy(w, dx) ==
    IF dx < 0 THEN shiftBy(moveLeft(Call(w, "moveLeft")), dx + 1)
    ELSE IF dx > 0 THEN shiftBy(moveRight(Call(w, "moveRight")), dx - 1)
    ELSE w

\* gravity ticks until the current piece is at most d rows above its landing row
RECURSIVE tickDownTo(_, _)
tickDownTo(w, d) ==
    IF getGhostY(w.game) - w.game.currentPiece.y > d
    THEN tickDownTo(dropTimerCallback(Call(w, "tick"), IdDraws), d)
    ELSE w

\* piece k rotated and shifted as recorded
Aimed(w, k) == shiftBy(rotateTimes(w, Playthrough[k][1]), Playthrough[k][2])

\* piece k placed as recorded
Placed(w, k) == hardDrop(Call(Aimed(w, k), "hardDrop"), IdDraws)

\* <<k, d>>: the session with k-1 pieces placed and piece k aimed and fallen
\* to d rows above its landing row
SnapshotPoints ==
    { <<1, 1>>, <<6, 0>>, <<14, 1>>, <<35, 1>>, <<49, 0>>, <<57, 1>>,
      <<65, 1>>, <<84, 1>>, <<93, 1>>, <<98, 0>> }

\* the recorded session: ws[k] is the world with k-1 pieces placed
RECURSIVE SessionFrom(_)
SessionFrom(ws) ==
    IF Len(ws) > Len(Playthrough) THEN ws
    ELSE SessionFrom(Append(ws, Placed(ws[Len(ws)], Len(ws))))

Session == SessionFrom(<<start(Call(World(IdDraws), "start"), IdDraws)>>)

(***************************************************************************)
(* A second recorded session: 27 pieces placed without clearing a line,    *)
(* the O pieces and three of the I pieces in columns 3 to 6, so that       *)
(* columns 4 and 5 are filled up to row 3 when the fourth I piece spawns.  *)
(* Piece k is rotated clockwise TowerPlaythrough[k][1] times, shifted by   *)
(* TowerPlaythrough[k][2] columns and dropped; every shuffle draws IdDraws.*)
(***************************************************************************)
TowerPlaythrough ==
    <<
        <<0,-3>>, <<0,3>>, <<0,3>>, <<0,-3>>, <<1,-4>>, <<0,0>>, <<1,0>>,
        <<3,5>>, <<0,3>>, <<0,3>>, <<1,-3>>, <<1,-4>>, <<0,0>>, <<1,0>>,
        <<3,5>>, <<0,3>>, <<0,3>>, <<1,-4>>, <<3,4>>, <<0,0>>, <<0,0>>,
        <<3,-3>>, <<1,3>>, <<1,-4>>, <<1,3>>, <<1,-4>>, <<0,0>>
    >>

\* piece k of the second session placed as recorded
TowerPlaced(w, k) ==
    hardDrop(Call(shiftBy(rotateTimes(w, TowerPlaythrough[k][1]),
                          TowerPlaythrough[k][2]), "hardDrop"), IdDraws)

\* the second session: ws[k] is the world with k-1 pieces placed
RECURSIVE TowerFrom(_)
TowerFrom(ws) ==
    IF Len(ws) > Len(TowerPlaythrough) THEN ws
    ELSE TowerFrom(Append(ws, TowerPlaced(ws[Len(ws)], Len(ws))))

TowerSession == TowerFrom(<<start(Call(World(IdDraws), "start"), IdDraws)>>)

\* the worlds a behaviour starts in
InitialWorlds ==
    {World(js) : js \in GameDraws}
    \cup {tickDownTo(Aimed(Session[p[1]], p[1]), p[2]) : p \in SnapshotPoints}
    \cup {moveLeft(Call(start(Call(World(js), "start"), js), "moveLeft")) :
             js \in GameDraws}
    \cup {TowerSession[Len(TowerPlaythrough) + 1]}

(***************************************************************************)
(* The specification of the game                                           *)
(***************************************************************************)
(***************************************************************************)
(* storage.js: the high-score list kept in localStorage under the key      *)
(* retris_highscores.  An entry is [id, name, score, level, date]; the     *)
(* stored item is the JSON text of the list, modelled as the sequence of   *)
(* the entries' field values in the order JSON.stringify writes them.      *)
(***************************************************************************)
\* localStorage.getItem of a key never written: null
NoItem == [present |-> FALSE, data |-> <<>>]

JSON_stringify(scores) ==
    [i \in 1..Len(scores) |->
        <<scores[i].id, scores[i].name, scores[i].score, scores[i].level, scores[i].date>>]

JSON_parse(data) ==
    [i \in 1..Len(data) |->
        [id |-> data[i][1], name |-> data[i][2], score |-> data[i][3],
         level |-> data[i][4], date |-> data[i][5]]]

\* Storage.getScores() with localStorage holding item
getScores(item) == IF item.present THEN JSON_parse(item.data) ELSE <<>>

\* the comparator (a, b) => a.score - b.score
compareScores_ascending(a, b) == a.score - b.score

\* the comparator (a, b) => b.score - a.score
compareScores(a, b) == b.score - a.score

\* Array.prototype.sort is stable: an entry goes behind the entries already
\* placed that the comparator does not put after it
insertScore(sorted, entry) ==
    LET k == Cardinality({i \in 1..Len(sorted) : compareScores(entry, sorted[i]) >= 0})
    IN  SubSeq(sorted, 1, k) \o <<entry>> \o SubSeq(sorted, k + 1, Len(sorted))

RECURSIVE sortFirst(_, _)
sortFirst(scores, n) ==
    IF n = 0 THEN <<>> ELSE insertScore(sortFirst(scores, n - 1), scores[n])

\* scores.sort((a, b) => b.score - a.score)
sortScores(scores) == sortFirst(scores, Len(scores))

\* scores.slice(0, end)
slice(scores, end) == SubSeq(scores, 1, IF Len(scores) < end THEN Len(scores) ELSE end)

\* Storage.saveScore(name, score, level) with localStorage holding store.item
\* and accepting the write; id and date are what generateId() and new Date()
\* give the call, finalName the name after the filter
saveScore(store, id, finalName, score, level, date) ==
    LET newScore  == [id |-> id, name |-> finalName, score |-> score,
                      level |-> level, date |-> date]
        scores    == sortScores(Append(getScores(store.item), newScore))
        topScores == slice(scores, 10)
    IN  [item  |-> [present |-> TRUE, data |-> JSON_stringify(topScores)],
         saved |-> Append(store.saved, newScore),
         ret   |-> topScores]

\* the game, the stand-alone randomizer, the stand-alone board, the stand-alone
\* getWallKicks call, the stand-alone storage and the stand-alone getDropSpeed
\* calls when the specification at hand does not use them
GameIdle ==
    /\ LET w == World(IdDraws)
       IN  /\ game = w.game
           /\ timers = w.timers
           /\ nextTimerId = w.nextTimerId
           /\ events = w.events
           /\ ret = w.ret
           /\ lastOp = w.op
    /\ steps = 0

RzIdle ==
    /\ rz = BagRandomizer(IdDraws)
    /\ rzCalls = 0
    /\ rzBlock = [t \in Types |-> 0]
    /\ rzLast = [op |-> "new", type |-> "none", peeked |-> "none"]
    /\ rzTwin = [bag |-> rz.bag, ret |-> "none", pending |-> <<>>]

BdIdle ==
    /\ bd = Board
    /\ bdRets = <<>>

WkIdle == wk = [op |-> "new", type |-> "none", from |-> 0, to |-> 0, result |-> <<>>]

HsIdle == hs = [item |-> NoItem, saved |-> <<>>, ret |-> <<>>]

\* no stand-alone getDropSpeed call was just made
NoSpeed == [op |-> "none", level |-> 0, speed |-> 0, speedAbove |-> 0]

DsIdle == ds = NoSpeed

\* no stand-alone isValidPosition call is set up
VpIdle == vp = [op |-> "none", board |-> Board, piece |-> NoPiece,
                offsetX |-> 0, offsetY |-> 0, result |-> FALSE]

\* the App after its constructor: init() shows the menu, the game is new
AppIdle == app = [state |-> "menu", screen |-> "menu", animationId |-> 0,
                  frames |-> {}, nextFrame |-> 1, showTimers |-> 0]

\* the keys pressed in a behaviour of the Controls
Codes == {"ArrowLeft", "ArrowDown", "ArrowUp", "KeyP"}

\* the Controls after their constructor, with a game just constructed
CtlIdle == ctl = [state |-> "menu", enabled |-> TRUE, keysDown |-> {},
                  repeatTimers |-> [code \in Codes |-> 0], timers |-> {},
                  nextTimer |-> 1, up |-> {},
                  last |-> [op |-> "new", code |-> "none", command |-> "none"]]

\* every part of the state that the specification at hand does not use
AllIdleBut(used) ==
    /\ "game" \in used \/ GameIdle
    /\ "rz" \in used \/ RzIdle
    /\ "bd" \in used \/ BdIdle
    /\ "wk" \in used \/ WkIdle
    /\ "hs" \in used \/ HsIdle
    /\ "ds" \in used \/ DsIdle
    /\ "vp" \in used \/ VpIdle
    /\ "app" \in used \/ AppIdle
    /\ "ctl" \in used \/ CtlIdle

W == [game |-> game, timers |-> timers, nextTimerId |-> nextTimerId,
      events |-> events, ret |-> ret, op |-> lastOp]

\* the world after a call becomes the state
Step(w) ==
    /\ steps < MaxSteps
    /\ steps' = steps + 1
    /\ game' = w.game
    /\ timers' = w.timers
    /\ nextTimerId' = w.nextTimerId
    /\ events' = w.events
    /\ ret' = w.ret
    /\ lastOp' = w.op
    /\ UNCHANGED <<rzVars, bdVars, wkVars, hsVars, vpVars, appVars, ctlVars>>
    /\ ds' = NoSpeed

Init ==
    /\ \E w \in InitialWorlds :
        /\ game = w.game
        /\ timers = w.timers
        /\ nextTimerId = w.nextTimerId
        /\ events = w.events
        /\ ret = w.ret
        /\ lastOp = w.op
    /\ steps = 0
    /\ AllIdleBut({"game"})

Start == \E js \in GameDraws : Step(start(Call(W, "start"), js))

Pause == Step(pause(Call(W, "pause")))

MoveLeft == Step(moveLeft(Call(W, "moveLeft")))

MoveRight == Step(moveRight(Call(W, "moveRight")))

MoveDown == Step(moveDown(Call(W, "moveDown")))

SoftDrop == Step(softDrop(Call(W, "softDrop")))

HardDrop == \E js \in DrawsFor(game) : Step(hardDrop(Call(W, "hardDrop"), js))

Rotate == \E direction \in {1, -1} : Step(rotate(Call(W, "rotate"), direction))

\* a live interval timer of the host fires
Tick ==
    \E t \in timers : \E js \in DrawsFor(game) :
        Step(dropTimerCallback(Call(W, "tick"), js))

Next ==
    \/ Start
    \/ Pause
    \/ MoveLeft
    \/ MoveRight
    \/ MoveDown
    \/ SoftDrop
    \/ HardDrop
    \/ Rotate
    \/ Tick

Spec == Init /\ [][Next]_vars

(***************************************************************************)
(* The specification of a stand-alone BagRandomizer                        *)
(***************************************************************************)
InitBag ==
    /\ \E js \in AllDraws : rz = BagRandomizer(js)
    /\ rzCalls = 0
    /\ rzBlock = [t \in Types |-> 0]
    /\ rzLast = [op |-> "new", type |-> "none", peeked |-> "none"]
    /\ rzTwin = [bag |-> rz.bag, ret |-> "none", pending |-> <<>>]
    /\ AllIdleBut({"rz"})

\* The twin's next().  The random draws are one stream for both randomizers:
\* the twin's refill takes the draws rz's refill took, which are `pending` when
\* rz refilled earlier, in a peek(), and js when rz refills in this call.
TwinNext(js) ==
    LET draws == IF rzTwin.pending # <<>> THEN rzTwin.pending ELSE js
        n     == next([bag |-> rzTwin.bag], draws)
    IN  [bag |-> n.rz.bag, ret |-> n.type, pending |-> <<>>]

\* rz.next(); rzBlock counts the types returned in calls 7m+1..7m+7
RzNext ==
    /\ rzCalls < MaxCalls
    /\ \E js \in (IF Len(rz.bag) = 0 THEN AllDraws ELSE {IdDraws}) :
        LET n == next(rz, js)
            block == IF rzCalls % Len(TetrominoKeys) = 0
                     THEN [t \in Types |-> 0] ELSE rzBlock
        IN  /\ rz' = n.rz
            /\ rzBlock' = [block EXCEPT ![n.type] = @ + 1]
            /\ rzLast' = [op |-> "next", type |-> n.type,
                          peeked |-> IF rzLast.op = "peek" THEN rzLast.type ELSE "none"]
            /\ rzTwin' = TwinNext(js)
    /\ rzCalls' = rzCalls + 1
    /\ UNCHANGED <<gameVars, bdVars, wkVars, hsVars, dsVars, vpVars, appVars,
                   ctlVars>>

\* rz.peek(); the twin is not called
RzPeek ==
    /\ rzCalls < MaxCalls
    /\ \E js \in (IF Len(rz.bag) = 0 THEN AllDraws ELSE {IdDraws}) :
        LET p == peek(rz, js)
        IN  /\ rz' = p.rz
            /\ rzLast' = [op |-> "peek", type |-> p.type,
                          peeked |-> IF rzLast.op = "peek" THEN rzLast.type ELSE "none"]
            /\ rzTwin' = [rzTwin EXCEPT !.pending =
                             IF Len(rz.bag) = 0 THEN js ELSE @]
    /\ UNCHANGED <<gameVars, rzCalls, rzBlock, bdVars, wkVars, hsVars,
                   dsVars, vpVars, appVars, ctlVars>>

NextBag ==
    \/ RzNext
    \/ RzPeek

SpecBag == InitBag /\ [][NextBag]_vars

(***************************************************************************)
(* The specification of a stand-alone Board.  placeTetromino writes a      *)
(* color into any cell without a test, so a board can hold any grid of     *)
(* colors; the boards explored hold cells in row 0 and in the bottom       *)
(* MaxFilledRows rows, each of these rows being empty, full or partly      *)
(* filled.                                                                 *)
(***************************************************************************)
\* the rows that hold cells initially
BoardRows == {0} \cup ((BOARD_HEIGHT - MaxFilledRows)..(BOARD_HEIGHT - 1))

\* an empty row, two full rows and two partly filled rows
RowPatterns ==
    { [col \in 0..(BOARD_WIDTH - 1) |-> "null"],
      [col \in 0..(BOARD_WIDTH - 1) |-> TETROMINOES.I.color],
      [col \in 0..(BOARD_WIDTH - 1) |->
          IF col % 2 = 0 THEN TETROMINOES.T.color ELSE TETROMINOES.L.color],
      [col \in 0..(BOARD_WIDTH - 1) |->
          IF col = 0 THEN "null" ELSE TETROMINOES.T.color],
      [col \in 0..(BOARD_WIDTH - 1) |->
          IF col = BOARD_WIDTH - 1 THEN TETROMINOES.I.color ELSE "null"] }

InitBoard ==
    /\ \E f \in [BoardRows -> RowPatterns] :
          bd = [Board EXCEPT !.grid =
                   [row \in 0..(BOARD_HEIGHT - 1) |->
                       IF row \in BoardRows THEN f[row] ELSE Board.grid[row]]]
    /\ bdRets = <<>>
    /\ AllIdleBut({"bd"})

\* bd.clearLines()
BoardClearLines ==
    /\ Len(bdRets) < MaxBoardCalls
    /\ LET r == clearLines(bd)
       IN  /\ bd' = r.board
           /\ bdRets' = Append(bdRets, r.linesCleared)
    /\ UNCHANGED <<gameVars, rzVars, wkVars, hsVars, dsVars, vpVars, appVars,
                   ctlVars>>

NextBoard == BoardClearLines

SpecBoard == InitBoard /\ [][NextBoard]_vars

(***************************************************************************)
(* The specification of stand-alone Board.isValidPosition calls.  The      *)
(* boards are the empty one and three that a session leaves when it drops  *)
(* the pieces of two bags and the first of a third one after the other,    *)
(* most of them on a tower in columns 4 and 5 that ends in row 0.  The     *)
(* piece asked about is of any type and rotation, at any position from two *)
(* columns and rows outside the board to its far edges.                    *)
(***************************************************************************)
\* a piece of the type in the rotation, at (x, y)
PieceAt(type, rotationIndex, x, y) ==
    [Tetromino(type) EXCEPT !.rotationIndex = rotationIndex,
                            !.shape = deepClone(RotationAt(type, rotationIndex)),
                            !.x = x,
                            !.y = y]

\* the pieces locked one after the other
StackedPieces ==
    << PieceAt("I", 0, 3, 18), PieceAt("O", 0, 4, 17), PieceAt("L", 0, 0, 18),
       PieceAt("S", 0, 6, 17), PieceAt("J", 1, 3, 14), PieceAt("T", 1, 4, 11),
       PieceAt("Z", 1, 3, 9),
       PieceAt("O", 0, 4, 7),  PieceAt("I", 1, 3, 3),  PieceAt("L", 0, 7, 15),
       PieceAt("J", 1, 3, 2),  PieceAt("S", 0, 0, 17), PieceAt("T", 0, 7, 13),
       PieceAt("Z", 0, 0, 15),
       PieceAt("O", 0, 4, 0) >>

\* the board after the first n of them
RECURSIVE StackedBoard(_)
StackedBoard(n) ==
    IF n = 0 THEN Board
    ELSE LET below == StackedBoard(n - 1)
         IN  [below EXCEPT !.grid = placeTetromino(below, StackedPieces[n])]

\* the boards asked about
ValidBoards == {StackedBoard(n) : n \in {0, 4, 9, Len(StackedPieces)}}

InitValid ==
    /\ \E board \in ValidBoards :
       \E type \in Types :
       \E rotationIndex \in 0..(Len(Rotations(type)) - 1) :
       \E x \in (-2)..(BOARD_WIDTH - 2) :
       \E y \in (-2)..(BOARD_HEIGHT - 2) :
          vp = [op |-> "new", board |-> board,
                piece |-> PieceAt(type, rotationIndex, x, y),
                offsetX |-> 0, offsetY |-> 0, result |-> FALSE]
    /\ AllIdleBut({"vp"})

\* vp.board.isValidPosition(vp.piece, offsetX, offsetY)
IsValidPosition ==
    /\ vp.op = "new"
    /\ \E offsetX \in (-MaxOffset)..MaxOffset : \E offsetY \in (-MaxOffset)..MaxOffset :
          vp' = [vp EXCEPT !.op = "isValidPosition",
                           !.offsetX = offsetX,
                           !.offsetY = offsetY,
                           !.result = isValidPosition(vp.board, vp.piece,
                                                      offsetX, offsetY)]
    /\ UNCHANGED <<gameVars, rzVars, bdVars, wkVars, hsVars, dsVars, appVars,
                   ctlVars>>

NextValid == IsValidPosition

SpecValid == InitValid /\ [][NextValid]_vars

(***************************************************************************)
(* The game together with pause() called twice in a row, no other call and *)
(* no timer callback in between.                                           *)
(***************************************************************************)
PauseTwice == Step(pause(Call(pause(Call(W, "pause")), "pauseTwice")))

NextPause == Next \/ PauseTwice

SpecPause == Init /\ [][NextPause]_vars

(***************************************************************************)
(* The App (main.js).  Of the game it uses start(), pause(), state and the *)
(* onGameOver callback; the game is kept as its state alone, and a game    *)
(* over is a lock that the drop timer or a hard drop makes while the game  *)
(* is playing.  requestAnimationFrame hands out the handles 1, 2, ...; a   *)
(* frame of app.frames runs when the browser paints next.  The handlers    *)
(* run to completion one at a time; none of them tests the screen shown.   *)
(***************************************************************************)
\* App.gameLoop
gameLoop(a) ==
    IF a.state = "gameover" THEN a
    ELSE [a EXCEPT !.animationId = a.nextFrame,
                   !.frames = @ \cup {a.nextFrame},
                   !.nextFrame = @ + 1]

\* App.stopGameLoop
stopGameLoop(a) ==
    IF a.animationId # 0
    THEN [a EXCEPT !.frames = @ \ {a.animationId}, !.animationId = 0]
    ELSE a

\* App.showScreen
showScreen(a, screenId) == [a EXCEPT !.screen = screenId]

\* App.startGame
startGame(a) == gameLoop(showScreen([a EXCEPT !.state = "playing"], "game"))

\* App.handleMenuPress
handleMenuPress(a) ==
    showScreen(IF a.state = "playing" THEN [a EXCEPT !.state = "paused"] ELSE a, "menu")

\* App.handleGameOver, called by Game.gameOver
handleGameOver(a) ==
    [stopGameLoop([a EXCEPT !.state = "gameover"]) EXCEPT !.showTimers = @ + 1]

AppStep(a) ==
    /\ app' = a
    /\ UNCHANGED <<gameVars, rzVars, bdVars, wkVars, hsVars, dsVars, vpVars,
                   ctlVars>>

InitApp == AllIdleBut({})

\* the actions new-game and play-again
AppStartGame ==
    /\ app.nextFrame <= MaxFrames
    /\ AppStep(startGame(app))

\* the menu button
AppMenuPress == AppStep(handleMenuPress(app))

\* the actions main-menu, high-scores and about
AppShowScreen ==
    \E screenId \in {"menu", "highscores", "about"} : AppStep(showScreen(app, screenId))

\* the pause key of the controls: Game.pause
AppPause ==
    /\ app.state \in {"playing", "paused"}
    /\ AppStep([app EXCEPT !.state = IF @ = "playing" THEN "paused" ELSE "playing"])

\* a lock of the playing game ends it
AppGameOver ==
    /\ app.state = "playing"
    /\ AppStep(handleGameOver(app))

\* the timeout of handleGameOver
AppShowGameOver ==
    /\ app.showTimers > 0
    /\ AppStep(showScreen([app EXCEPT !.showTimers = @ - 1], "gameover"))

\* the browser runs a requested frame
AppFrame ==
    \E id \in app.frames :
        /\ app.nextFrame <= MaxFrames
        /\ AppStep(gameLoop([app EXCEPT !.frames = @ \ {id}]))

NextApp ==
    \/ AppStartGame
    \/ AppMenuPress
    \/ AppShowScreen
    \/ AppPause
    \/ AppGameOver
    \/ AppShowGameOver
    \/ AppFrame

SpecApp == InitApp /\ [][NextApp]_vars

(***************************************************************************)
(* The keyboard half of the Controls (controls.js).  Of the game they use  *)
(* state, pause() and the commands; the game is kept as its state alone.   *)
(* setTimeout and setInterval hand out the handles 1, 2, ... of one pool,  *)
(* and clearTimeout and clearInterval clear a timer of either kind.  A     *)
(* timer of ctl.timers fires when it is due; the handlers and callbacks    *)
(* run to completion one at a time.                                        *)
(***************************************************************************)
\* the codes handleKeyDown sets up a repeat for
MovementKeys == {"ArrowLeft", "ArrowRight", "ArrowDown", "KeyA", "KeyD", "KeyS"}

\* Controls.handleKeyAction: the game command called for a code
handleKeyAction(code) ==
    CASE code \in {"ArrowLeft", "KeyA"}  -> "moveLeft"
      [] code \in {"ArrowRight", "KeyD"} -> "moveRight"
      [] code \in {"ArrowDown", "KeyS"}  -> "softDrop"
      [] code \in {"ArrowUp", "KeyW"}    -> "rotate"
      [] code = "KeyZ"                   -> "rotate"
      [] code = "Space"                  -> "hardDrop"
      [] OTHER                           -> "none"

\* clearTimeout(id); clearInterval(id)
clearTimer(c, id) == [c EXCEPT !.timers = {t \in @ : t.id # id}]

Did(c, op, code, command) ==
    [c EXCEPT !.last = [op |-> op, code |-> code, command |-> command]]

\* Controls.setupKeyRepeat
setupKeyRepeat(c, code) ==
    LET a == IF c.repeatTimers[code] # 0 THEN clearTimer(c, c.repeatTimers[code]) ELSE c
    IN  [a EXCEPT !.repeatTimers[code] = a.nextTimer,
                  !.timers = @ \cup {[id |-> a.nextTimer, kind |-> "timeout",
                                      code |-> code]},
                  !.nextTimer = @ + 1]

\* Controls.handleKeyDown
handleKeyDown(c, code) ==
    IF code \in {"KeyP", "Escape"}
    THEN IF c.state \in {"playing", "paused"}
         THEN Did([c EXCEPT !.state = IF @ = "playing" THEN "paused" ELSE "playing"],
                  "keydown", code, "pause")
         ELSE Did(c, "keydown", code, "none")
    ELSE IF ~c.enabled \/ c.state # "playing" THEN Did(c, "keydown", code, "none")
    ELSE IF code \in c.keysDown THEN Did(c, "keydown", code, "none")
    ELSE LET a == Did(c, "keydown", code, handleKeyAction(code))
         IN  IF code \in MovementKeys
             THEN setupKeyRepeat([a EXCEPT !.keysDown = @ \cup {code}], code)
             ELSE a

\* the callback that never looks at the state of the game
repeatCallback_ignoresState(c, t) ==
    IF t.code \in c.keysDown
    THEN Did(c, "interval", t.code, handleKeyAction(t.code))
    ELSE Did(c, "interval", t.code, "none")

\* the setInterval callback of Controls.setupKeyRepeat, for timer t
repeatCallback(c, t) ==
    IF t.code \in c.keysDown /\ c.state = "playing"
    THEN Did(c, "interval", t.code, handleKeyAction(t.code))
    ELSE Did(c, "interval", t.code, "none")

\* the setTimeout callback of Controls.setupKeyRepeat, for timer t
delayCallback(c, t) ==
    Did([c EXCEPT !.timers = (@ \ {t}) \cup {[id |-> c.nextTimer, kind |-> "interval",
                                            code |-> t.code]},
                  !.repeatTimers[t.code] = c.nextTimer,
                  !.nextTimer = @ + 1],
        "timeout", t.code, "none")

\* Controls.handleKeyUp
handleKeyUp(c, code) ==
    LET a == [c EXCEPT !.keysDown = @ \ {code}]
    IN  Did(IF a.repeatTimers[code] # 0
            THEN [clearTimer(a, a.repeatTimers[code]) EXCEPT !.repeatTimers[code] = 0]
            ELSE a,
            "keyup", code, "none")

\* Controls.clearAllRepeats
clearAllRepeats(c) ==
    Did([c EXCEPT !.timers = {t \in @ : \A code \in Codes : c.repeatTimers[code] # t.id},
                  !.repeatTimers = [code \in Codes |-> 0],
                  !.keysDown = {}],
        "blur", "none", "none")

CtlStep(c) ==
    /\ ctl' = c
    /\ UNCHANGED <<gameVars, rzVars, bdVars, wkVars, hsVars, dsVars, vpVars, appVars>>

InitControls == AllIdleBut({})

\* a keydown event; the browser sends more of them while the key is held
KeyDown ==
    \E code \in Codes :
        /\ ctl.nextTimer <= MaxTimers
        /\ CtlStep([handleKeyDown(ctl, code) EXCEPT !.up = @ \ {code}])

\* a keyup event
KeyUp ==
    \E code \in Codes : CtlStep([handleKeyUp(ctl, code) EXCEPT !.up = @ \cup {code}])

\* the window loses the focus
Blur == CtlStep(clearAllRepeats(ctl))

\* a timer that is set fires
TimerFires ==
    \E t \in ctl.timers :
        IF t.kind = "timeout"
        THEN /\ ctl.nextTimer <= MaxTimers
             /\ CtlStep(delayCallback(ctl, t))
        ELSE CtlStep(repeatCallback(ctl, t))

\* the App starts a game, or a lock ends the game that is playing
GameChanges ==
    \/ CtlStep(Did([ctl EXCEPT !.state = "playing"], "start", "none", "none"))
    \/ /\ ctl.state = "playing"
       /\ CtlStep(Did([ctl EXCEPT !.state = "gameover"], "gameover", "none", "none"))

NextControls ==
    \/ KeyDown
    \/ KeyUp
    \/ Blur
    \/ TimerFires
    \/ GameChanges

SpecControls == InitControls /\ [][NextControls]_vars

(***************************************************************************)
(* The game left to gravity: start() is called once on the constructed     *)
(* game and from then on only the interval timer fires, no command of the  *)
(* player is called.  The host fires a live interval timer again and       *)
(* again: GravityFair is WF_vars(GravityTick) with ENABLED <<GravityTick>> *)
(* written as the state predicate it amounts to, a live timer of a playing *)
(* game, whose callback moves or locks the piece.  A session without input *)
(* clears no line and ends, so the calls are not counted.                  *)
(***************************************************************************)
Unbounded(w) ==
    /\ game' = w.game
    /\ timers' = w.timers
    /\ nextTimerId' = w.nextTimerId
    /\ events' = w.events
    /\ ret' = w.ret
    /\ lastOp' = w.op
    /\ UNCHANGED <<steps, rzVars, bdVars, wkVars, hsVars, dsVars, vpVars,
                   appVars, ctlVars>>

InitGravity ==
    /\ \E js \in GameDraws :
        LET w == World(js)
        IN  /\ game = w.game
            /\ timers = w.timers
            /\ nextTimerId = w.nextTimerId
            /\ events = w.events
            /\ ret = w.ret
            /\ lastOp = w.op
    /\ steps = 0
    /\ AllIdleBut({"game"})

GravityStart ==
    /\ lastOp = "new"
    /\ \E js \in GameDraws : Unbounded(start(Call(W, "start"), js))

GravityTick ==
    \E t \in timers : \E js \in DrawsFor(game) :
        Unbounded(dropTimerCallback(Call(W, "tick"), js))

NextGravity == GravityStart \/ GravityTick

GravityFair ==
    \/ []<>(~(game.state = "playing" /\ timers # {}))
    \/ []<><<GravityTick>>_vars

SpecGravity == InitGravity /\ [][NextGravity]_vars /\ GravityFair

(***************************************************************************)
(* The game together with rotate(d) followed at once by rotate(-d); the    *)
(* event record after the two calls holds the isValidRotation calls of     *)
(* both, those of rotate(d) first.                                         *)
(***************************************************************************)
RotateBack ==
    \E direction \in {1, -1} :
        Step(rotate([rotate(Call(W, "rotate"), direction) EXCEPT !.op = "rotateBack"],
                    -direction))

NextRotate == Next \/ RotateBack

SpecRotate == Init /\ [][NextRotate]_vars

(***************************************************************************)
(* The game together with the calls of getGhostY() a renderer makes        *)
(* between the other calls.                                                *)
(***************************************************************************)
GetGhostY == Step(callGetGhostY(Call(W, "getGhostY")))

NextGhost == Next \/ GetGhostY

SpecGhost == Init /\ [][NextGhost]_vars

(***************************************************************************)
(* The game together with getDropSpeed() asked for every level: on a Game  *)
(* that was constructed and not used yet, the level field is set to a      *)
(* level of 1..MaxLevel and getDropSpeed() is called, then the same for    *)
(* the level above.  ds holds the outcome until the next call on the game. *)
(***************************************************************************)
GetDropSpeed ==
    /\ lastOp = "new"
    /\ \E level \in 1..MaxLevel :
          ds' = [op         |-> "getDropSpeed",
                 level      |-> level,
                 speed      |-> getDropSpeed([game EXCEPT !.level = level]),
                 speedAbove |-> getDropSpeed([game EXCEPT !.level = level + 1])]
    /\ UNCHANGED <<gameVars, rzVars, bdVars, wkVars, hsVars, vpVars, appVars,
                   ctlVars>>

NextSpeed == Next \/ GetDropSpeed

SpecSpeed == Init /\ [][NextSpeed]_vars

(***************************************************************************)
(* The specification of stand-alone Tetromino.getWallKicks calls: on a     *)
(* piece of every type, with every pair of rotation indices                *)
(* 0..MaxRotationArg.                                                      *)
(***************************************************************************)
InitKicks ==
    /\ WkIdle
    /\ AllIdleBut({"wk"})

\* new Tetromino(type).getWallKicks(from, to)
GetWallKicks ==
    /\ \E type \in Types : \E from \in 0..MaxRotationArg : \E to \in 0..MaxRotationArg :
          wk' = [op |-> "getWallKicks", type |-> type, from |-> from, to |-> to,
                 result |-> getWallKicks(Tetromino(type), from, to)]
    /\ UNCHANGED <<gameVars, rzVars, bdVars, hsVars, dsVars, vpVars, appVars,
                   ctlVars>>

NextKicks == GetWallKicks

SpecKicks == InitKicks /\ [][NextKicks]_vars

(***************************************************************************)
(* The specification of a stand-alone Storage over a localStorage that     *)
(* keeps what is written: saveScore() with the scores and levels of        *)
(* ScoreInputs, at most MaxSaves times.                                    *)
(***************************************************************************)
ScoreInputs == { <<100, 1>>, <<300, 1>>, <<1200, 2>> }

InitStorage ==
    /\ HsIdle
    /\ AllIdleBut({"hs"})

\* storage.saveScore(name, score, level); the calls are numbered for id and date
SaveScore ==
    /\ Len(hs.saved) < MaxSaves
    /\ \E input \in ScoreInputs :
          hs' = saveScore(hs, Len(hs.saved) + 1, "Player", input[1], input[2],
                          Len(hs.saved) + 1)
    /\ UNCHANGED <<gameVars, rzVars, bdVars, wkVars, dsVars, vpVars, appVars,
                   ctlVars>>

NextStorage == SaveScore

SpecStorage == InitStorage /\ [][NextStorage]_vars

(***************************************************************************)
(* Properties                                                              *)
(***************************************************************************)
\* the events of a kind in the last call's record
EventsOf(kind) == {i \in DOMAIN events : events[i].ev = kind}

\* the last call placed a piece: the lock sequence ran
Locked == EventsOf("onPiecePlace") # {}

\* C1: while the session is playing or paused, every occupied cell of the
\* current piece is in columns 0..9 and in a row below 20, and no occupied cell
\* in a row >= 0 lies on a locked cell of the board; so also right after a
\* rotation, whichever wall kick was applied.
C1_PieceInsideAndFree ==
    game.state \in {"playing", "paused"} =>
        \A c \in Cells(game.currentPiece.shape, game.currentPiece.x, game.currentPiece.y) :
            /\ c[1] \in 0..9
            /\ c[2] < 20
            /\ (c[2] >= 0 => game.board.grid[c[2]][c[1]] = "null")

\* a rotation has just succeeded with a wall kick other than the first candidate
C1_Witness ==
    /\ game.state = "playing"
    /\ lastOp = "rotate"
    /\ ret = "true"
    /\ Cardinality(EventsOf("isValidRotation")) > 1
    /\ Cardinality(Cells(game.currentPiece.shape, game.currentPiece.x,
                         game.currentPiece.y)) = 4

\* C2: of a fresh BagRandomizer, each block of 7 next() calls aligned to a
\* refill (calls 1-7, 8-14, ...) returns every one of the 7 types exactly once,
\* whatever the shuffles drew.
C2_BlockIsPermutation ==
    /\ \A t \in Types : rzBlock[t] <= 1
    /\ (rzCalls > 0 /\ rzCalls % 7 = 0) =>
          /\ \A t \in {"I", "O", "T", "S", "Z", "J", "L"} : rzBlock[t] = 1
          /\ rzLast.op = "next" => Len(rz.bag) = 0

\* the second block of 7 calls, drawn from a refill made inside next(), is complete
C2_Witness ==
    /\ rzCalls = 14
    /\ \A t \in Types : rzBlock[t] = 1

\* the commands that move or turn the piece
MoveOps == {"moveLeft", "moveRight", "moveDown", "softDrop", "hardDrop", "rotate"}

\* C3: the session state changes only so: start() leads to playing from any
\* state; pause() turns playing into paused and paused into playing; playing
\* turns into gameover only in a lock sequence, run by a gravity tick whose move
\* down failed or by hardDrop; and gameover stays gameover under every call
\* but start().
C3_StateTransitions ==
    [][ /\ (lastOp' = "start" => game'.state = "playing")
        /\ (lastOp' = "pause" /\ game.state = "playing" => game'.state = "paused")
        /\ (lastOp' = "pause" /\ game.state = "paused" => game'.state = "playing")
        /\ (lastOp' = "pause" /\ game.state \in {"menu", "gameover"} =>
                game'.state = game.state)
        /\ (lastOp' \in MoveOps \cup {"tick"} /\ game'.state # game.state =>
                /\ game.state = "playing"
                /\ game'.state = "gameover"
                /\ Locked'
                /\ \/ lastOp' = "hardDrop"
                   \/ /\ lastOp' = "tick"
                      /\ ~isValidPosition(game.board, game.currentPiece, 0, 1))
        /\ (game.state = "gameover" /\ lastOp' # "start" =>
                game'.state = "gameover")
      ]_vars

\* pause() was called on a finished session, which stayed finished
C3_Witness ==
    /\ game.state = "gameover"
    /\ lastOp = "pause"
    /\ steps >= 2

\* C4: once the session is in gameover, score, level, lines and the grid keep
\* their values under every call other than start().
C4_FinalStatsStable ==
    [][ game.state = "gameover" /\ lastOp' # "start" =>
            /\ game'.score = game.score
            /\ game'.level = game.level
            /\ game'.lines = game.lines
            /\ game'.board.grid = game.board.grid
      ]_vars

\* hardDrop() was called on a finished session that had scored
C4_Witness ==
    /\ game.state = "gameover"
    /\ lastOp = "hardDrop"
    /\ ~Locked
    /\ game.score > 0

\* the number of events of a kind among the first n events
CountIn(evs, n, kind) == Cardinality({i \in 1..n : evs[i].ev = kind})

\* C5: the gravity timer is live exactly when the session is playing, the game
\* holds the handle of the only live timer, and at no moment of a call are two
\* timers live: the old timer is cancelled before a new one is created.
C5_OneTimerIffPlaying ==
    /\ [](/\ Cardinality(timers) <= 1
          /\ (game.state = "playing") <=> (timers # {})
          /\ (game.state = "playing") <=> (game.dropInterval # 0)
          /\ \A t \in timers : t.id = game.dropInterval)
    /\ [][ \A n \in 0..Len(events') :
              Cardinality(timers) + CountIn(events', n, "setInterval")
                  - CountIn(events', n, "clearInterval") <= 1
         ]_vars

\* a lock sequence raised the level and replaced the timer
C5_Witness ==
    /\ game.state = "playing"
    /\ lastOp \in {"tick", "hardDrop"}
    /\ EventsOf("onLevelUp") # {}
    /\ EventsOf("clearInterval") # {}
    /\ Cardinality(timers) = 1

\* C6 as claimed: when start() is called while a gravity timer is live, the
\* old timer handle is invalidated before the board, score, level, lines and
\* pieces are reset.
C6_ClearedBeforeReset ==
    lastOp = "start" =>
        \A i \in EventsOf("clearInterval") : \A j \in EventsOf("board.reset") : i < j

\* C6 amended: when start() is called while a gravity timer is live, the old
\* timer handle is invalidated in that same call, after the board, score, level
\* and lines are reset and before the new timer is created; when start()
\* returns the old timer is not live and the new one is the only live timer.
C6_ClearedWithinStart ==
    [][ lastOp' = "start" /\ game.dropInterval # 0 =>
            /\ Len(events') = 3
            /\ events'[1].ev = "board.reset"
            /\ events'[2].ev = "clearInterval"
            /\ events'[2].args = <<game.dropInterval>>
            /\ <<events'[2].score, events'[2].level, events'[2].lines>> = <<0, 1, 0>>
            /\ events'[3].ev = "setInterval"
            /\ events'[3].args[1] = game'.dropInterval
            /\ game'.dropInterval # game.dropInterval
            /\ \A t \in timers' : t.id = game'.dropInterval
            /\ Cardinality(timers') = 1
      ]_vars

\* start() was called on a session whose timer was live, after it had scored
C6_Witness ==
    /\ lastOp = "start"
    /\ EventsOf("clearInterval") # {}
    /\ game.state = "playing"
    /\ nextTimerId > 2

\* C7: moveLeft, moveRight, softDrop, hardDrop and rotate (and moveDown) called
\* while the state is menu, paused or gameover return false (hardDrop:
\* undefined), call no collaborator and leave the game and the timers as
\* they were.
C7_NoOpUnlessPlaying ==
    [][ lastOp' \in MoveOps /\ game.state # "playing" =>
            /\ ret' = IF lastOp' = "hardDrop" THEN "undefined" ELSE "false"
            /\ events' = <<>>
            /\ game' = game
            /\ timers' = timers
            /\ nextTimerId' = nextTimerId
      ]_vars

\* rotate() was called before the first start(), with no current piece
C7_Witness ==
    /\ game.state = "menu"
    /\ game.currentPiece = NoPiece
    /\ lastOp = "rotate"
    /\ ret = "false"

\* the callbacks a Game fires
Callbacks == {"onScoreUpdate", "onLevelUp", "onLineClear", "onGameOver", "onPiecePlace"}

\* C8: in state playing, a moveLeft, moveRight, moveDown, softDrop or rotate
\* that returns false leaves the piece (position, rotation index, shape), the
\* grid, score, level, lines and state as before the call, fires no callback
\* and locks nothing.
C8_FailedMoveChangesNothing ==
    [][ /\ game.state = "playing"
        /\ lastOp' \in {"moveLeft", "moveRight", "moveDown", "softDrop", "rotate"}
        /\ ret' = "false"
        => /\ game' = game
           /\ \A i \in DOMAIN events' : events'[i].ev \notin Callbacks
           /\ timers' = timers
      ]_vars

\* a rotation of a piece other than O failed on all of its wall kicks
C8_Witness ==
    /\ game.state = "playing"
    /\ lastOp = "rotate"
    /\ ret = "false"
    /\ game.currentPiece.type # "O"
    /\ Cardinality(EventsOf("isValidRotation")) = 5

\* C9: in every reachable state level = floor(lines / 10) + 1, and within a
\* session (under every call but start()) the level never decreases.
C9_LevelFromLines ==
    /\ [](game.level = (game.lines \div 10) + 1)
    /\ [][lastOp' # "start" => game'.level >= game.level]_vars

\* a lock sequence has just brought the session to 30 lines and level 4
C9_Witness ==
    /\ game.lines = 30
    /\ game.level = 4
    /\ EventsOf("onLevelUp") # {}

\* the base points of the claim
C10_Base == (1 :> 40) @@ (2 :> 100) @@ (3 :> 300) @@ (4 :> 1200)

C11_BlockedSpawnEndsSession ==
    [][ \/ lastOp' = "start" /\ ~isValidPosition(game.board, game'.currentPiece, 0, 0)
        \/ Locked' /\ ~isValidPosition(game'.board, game'.currentPiece, 0, 0)
        => /\ game'.state = "gameover"
           /\ timers' = {}
           /\ Cardinality({i \in DOMAIN events' : events'[i].ev = "onGameOver"}) = 1
           /\ \A i \in DOMAIN events' : events'[i].ev = "onGameOver" =>
                 events'[i].args = <<game'.score, game'.level, game'.lines>>
      ]_vars

\* C11 amended: a lock sequence ends the session exactly when the spawn cells
\* of the piece it spawns are occupied on the board it leaves; then, in the same
\* call, the gravity timer is stopped and onGameOver is invoked exactly once, as
\* the last callback, with the score, level and lines the game holds (the points
\* and lines of that lock included).  start() makes no spawn check: it empties
\* the board before it spawns, so it always yields playing and never invokes
\* onGameOver.
C11_BlockedSpawnAfterLock ==
    [][ /\ Locked' =>
            LET blocked == ~isValidPosition(game'.board, game'.currentPiece, 0, 0)
                over    == {i \in DOMAIN events' : events'[i].ev = "onGameOver"}
            IN  /\ blocked <=> game'.state = "gameover"
                /\ blocked <=> over # {}
                /\ blocked =>
                      /\ timers' = {}
                      /\ game'.dropInterval = 0
                      /\ over = {Len(events')}
                      /\ events'[Len(events')].args =
                            <<game'.score, game'.level, game'.lines>>
                      /\ game'.score >= game.score
                      /\ game'.lines >= game.lines
        /\ lastOp' = "start" =>
            /\ game'.state = "playing"
            /\ \A i \in DOMAIN events' : events'[i].ev # "onGameOver"
      ]_vars

\* a hard drop has just locked a piece under a blocked spawn and ended the session
C11_Witness ==
    /\ game.state = "gameover"
    /\ lastOp = "hardDrop"
    /\ Locked
    /\ EventsOf("onGameOver") # {}
    /\ ~isValidPosition(game.board, game.currentPiece, 0, 0)
    /\ timers = {}

\* the spawn pose of the claim: rotation 0, column 4 for O and 3 otherwise,
\* row -1 for I and 0 otherwise
C12_SpawnPose(piece) ==
    /\ piece.type \in {"I", "O", "T", "S", "Z", "J", "L"}
    /\ piece.rotationIndex = 0
    /\ piece.shape = TETROMINOES[piece.type].rotations[1]
    /\ piece.x = (IF piece.type = "O" THEN 4 ELSE 3)
    /\ piece.y = (IF piece.type = "I" THEN -1 ELSE 0)

\* C12: start() called in any state yields state playing, an empty board,
\* score 0, level 1, lines 0, a fresh randomizer (the two pieces and the five
\* types left in the bag are the 7 types), current and next piece in their
\* spawn pose, and one running gravity timer with the level-1 period of 800 ms.
C12_StartResets ==
    [][ lastOp' = "start" =>
            /\ game'.state = "playing"
            /\ \A row \in 0..19 : \A col \in 0..9 : game'.board.grid[row][col] = "null"
            /\ DOMAIN game'.board.grid = 0..19
            /\ <<game'.score, game'.level, game'.lines>> = <<0, 1, 0>>
            /\ Len(game'.bagRandomizer.bag) = 5
            /\ {game'.bagRandomizer.bag[i] : i \in 1..5}
                  \cup {game'.currentPiece.type, game'.nextPiece.type}
                  = {"I", "O", "T", "S", "Z", "J", "L"}
            /\ C12_SpawnPose(game'.currentPiece)
            /\ C12_SpawnPose(game'.nextPiece)
            /\ game'.dropInterval # 0
            /\ timers' = {[id |-> game'.dropInterval, ms |-> 800]}
      ]_vars

\* start() was called on an earlier session that had no live timer (paused or
\* over) and had reached level 4
C12_Witness ==
    /\ lastOp = "start"
    /\ EventsOf("clearInterval") = {}
    /\ \E i \in EventsOf("board.reset") : events[i].level = 4
    /\ game.state = "playing"
    /\ game.level = 1

\* C13: pause() in playing sets paused and stops the gravity timer; pause() in
\* paused sets playing and starts the timer; pause() in menu or gameover changes
\* nothing; pause() touches nothing but the state and the timer.  While paused
\* no timer is live, a timer callback would change nothing, and no movement
\* command changes the game.
C13_PauseToggles ==
    /\ [][ lastOp' = "pause" =>
            /\ game.state = "playing" =>
                  /\ game'.state = "paused"
                  /\ timers' = {}
                  /\ game'.dropInterval = 0
            /\ game.state = "paused" =>
                  /\ game'.state = "playing"
                  /\ game'.dropInterval # 0
                  /\ timers' = {[id |-> game'.dropInterval, ms |-> getDropSpeed(game)]}
            /\ game.state \in {"menu", "gameover"} =>
                  /\ game' = game
                  /\ timers' = timers
                  /\ events' = <<>>
            /\ [game' EXCEPT !.state = game.state,
                             !.dropInterval = game.dropInterval] = game
         ]_vars
    /\ [][ game.state = "paused" /\ lastOp' \in MoveOps \cup {"tick"} =>
              game' = game /\ timers' = timers ]_vars
    /\ [](game.state = "paused" =>
              /\ timers = {}
              /\ dropTimerCallback(Call(W, "tick"), IdDraws).game = game)

\* a hard drop was called on a paused session that had scored, and was refused
C13_Witness ==
    /\ game.state = "paused"
    /\ lastOp = "hardDrop"
    /\ game.score > 0
    /\ game.currentPiece # NoPiece
    /\ timers = {}

\* C14: hardDrop() in playing drops the piece to the row getGhostY() gave before
\* the call, adds 2 points per row dropped, fires onScoreUpdate with that score
\* and then runs the lock sequence in the same call: the piece's cells are
\* written at the ghost position (before the full rows are removed) and the
\* next piece becomes current; so also when the distance is 0.
C14_HardDropLocksAtGhost ==
    [][ lastOp' = "hardDrop" /\ game.state = "playing" =>
            LET ghost  == getGhostY(game)
                dist   == ghost - game.currentPiece.y
                landed == Cells(game.currentPiece.shape, game.currentPiece.x, ghost)
                placed == [row \in 0..19 |-> [col \in 0..9 |->
                              IF <<col, row>> \in landed
                              THEN game.currentPiece.color
                              ELSE game.board.grid[row][col]]]
            IN  /\ dist >= 0
                /\ Len(events') >= 2
                /\ events'[1].ev = "onScoreUpdate"
                /\ events'[1].args = <<game.score + 2 * dist>>
                /\ events'[2].ev = "onPiecePlace"
                /\ events'[2].score = game.score + 2 * dist
                /\ game'.board.grid = clearLines([game.board EXCEPT !.grid = placed]).board.grid
                /\ (\A i \in DOMAIN events' : events'[i].ev # "onLineClear")
                      => game'.board.grid = placed
                /\ game'.currentPiece = game.nextPiece
                /\ ret' = "undefined"
      ]_vars

\* a hard drop of a piece already resting on its landing row locked it: the
\* score is still 0
C14_Witness ==
    /\ lastOp = "hardDrop"
    /\ Locked
    /\ game.score = 0
    /\ game.state = "playing"
    /\ \E row \in 0..19 : \E col \in 0..9 : game.board.grid[row][col] # "null"

\* the lowest row an occupied cell of the piece is in
C15_LowestRow(piece) ==
    LET rows == {c[2] : c \in Cells(piece.shape, piece.x, piece.y)}
    IN  CHOOSE r \in rows : \A q \in rows : q <= r

\* C15: on the empty board start() leaves, a hard drop of the freshly spawned
\* piece travels down to where its lowest occupied cell is in row 19 and adds 2
\* points per row travelled: 19 rows and 38 points for the I piece, whose cells
\* spawn in row 0, and 18 rows and 36 points for the other types, whose lowest
\* cells spawn in row 1.
C15_HardDropOnEmptyBoard ==
    [][ lastOp = "start" /\ lastOp' = "hardDrop" =>
            LET piece == game.currentPiece
                dist  == 19 - C15_LowestRow(piece)
            IN  /\ game'.score = game.score + 2 * dist
                /\ game.score = 0
                /\ piece.type = "I" => dist = 19 /\ game'.score = 38
                /\ piece.type # "I" => dist = 18 /\ game'.score = 36
                /\ \E col \in 0..9 : game'.board.grid[19][col] = piece.color
                /\ Cardinality({rc \in (0..19) \X (0..9) :
                                   game'.board.grid[rc[1]][rc[2]] # "null"}) = 4
      ]_vars

\* the I piece was hard-dropped from its spawn row onto the empty board: 38 points
C15_Witness ==
    /\ lastOp = "hardDrop"
    /\ game.score = 38
    /\ game.lines = 0
    /\ {rc \in (0..19) \X (0..9) : game.board.grid[rc[1]][rc[2]] # "null"}
          = {<<19, col>> : col \in 3..6}

\* C16: in playing, moveLeft()/moveRight() return true exactly when every cell
\* of the piece shifted by -1/+1 column is inside columns 0..9, above row 20
\* and, from row 0 on, free; then the piece's column changes by exactly that
\* amount and nothing else changes; otherwise the call returns false and
\* nothing changes.
C16_ShiftIffValid ==
    [][ game.state = "playing" /\ lastOp' \in {"moveLeft", "moveRight"} =>
            LET dx      == IF lastOp' = "moveLeft" THEN -1 ELSE 1
                shifted == Cells(game.currentPiece.shape,
                                 game.currentPiece.x + dx, game.currentPiece.y)
                valid   == \A c \in shifted :
                              /\ c[1] \in 0..9
                              /\ c[2] < 20
                              /\ (c[2] >= 0 => game.board.grid[c[2]][c[1]] = "null")
            IN  /\ ret' = IF valid THEN "true" ELSE "false"
                /\ valid => game' = [game EXCEPT !.currentPiece.x = @ + dx]
                /\ ~valid => game' = game
                /\ timers' = timers
                /\ events' = <<>>
      ]_vars

\* after start() with an I piece at column 3 and three moveLeft() calls, a
\* fourth moveLeft() returned false with the column still 0
C16_Witness ==
    /\ lastOp = "moveLeft"
    /\ ret = "false"
    /\ game.state = "playing"
    /\ game.currentPiece.type = "I"
    /\ <<game.currentPiece.x, game.currentPiece.y, game.currentPiece.rotationIndex>>
          = <<0, -1, 0>>
    /\ game.score = 0
    /\ \A row \in 0..19 : \A col \in 0..9 : game.board.grid[row][col] = "null"

\* the rotated shape of the piece at the kick offset is inside the board and free
C17_KickValid(g, to, kick) ==
    \A c \in Cells(TETROMINOES[g.currentPiece.type].rotations[to + 1],
                   g.currentPiece.x + kick[1], g.currentPiece.y + kick[2]) :
        /\ c[1] \in 0..9
        /\ c[2] < 20
        /\ (c[2] >= 0 => g.board.grid[c[2]][c[1]] = "null")

\* the outcome of rotate(direction) the claim describes
C17_Outcome(direction) ==
    LET piece == game.currentPiece
        from  == piece.rotationIndex
        to    == (from + direction + 4) % 4
        table == IF piece.type = "I" THEN WALL_KICKS.I ELSE WALL_KICKS.JLSTZ
        kicks == table[ToString(from) \o "->" \o ToString(to)]
        valid == {k \in 1..Len(kicks) : C17_KickValid(game, to, kicks[k])}
    IN  /\ Len(kicks) = 5
        /\ \A i \in DOMAIN events' :
              /\ events'[i].ev = "isValidRotation"
              /\ events'[i].args = <<kicks[i][1], kicks[i][2], IF i \in valid THEN 1 ELSE 0>>
        /\ valid = {} =>
              /\ ret' = "false"
              /\ game' = game
              /\ Len(events') = 5
        /\ valid # {} =>
              LET k == CHOOSE k \in valid : \A j \in valid : k <= j
              IN  /\ ret' = "true"
                  /\ Len(events') = k
                  /\ game' = [game EXCEPT
                        !.currentPiece.rotationIndex = to,
                        !.currentPiece.shape =
                            TETROMINOES[piece.type].rotations[to + 1],
                        !.currentPiece.x = @ + kicks[k][1],
                        !.currentPiece.y = @ + kicks[k][2]]

\* C17: in playing, rotate(direction) returns false and changes nothing for the
\* O piece; for every other piece it tests the five wall-kick candidates of the
\* (from, to) transition in table order, applies the first one whose rotated
\* shape at the offset position is valid (rotation index, shape and position
\* together), tests no later one and returns true; when none is valid it
\* returns false and changes nothing.
C17_FirstValidKick ==
    [][ game.state = "playing" /\ lastOp' = "rotate" =>
            /\ timers' = timers
            /\ IF game.currentPiece.type = "O"
               THEN ret' = "false" /\ game' = game /\ events' = <<>>
               ELSE C17_Outcome(1) \/ C17_Outcome(-1)
      ]_vars

\* a rotation succeeded on a wall kick that moves the piece up or down, after
\* earlier candidates had failed
C17_Witness ==
    /\ lastOp = "rotate"
    /\ ret = "true"
    /\ game.state = "playing"
    /\ Len(events) >= 3
    /\ events[Len(events)].args[2] # 0
    /\ events[Len(events)].args[3] = 1

\* the rows of a grid that have no empty cell
FullRowsOf(grid) == {row \in 0..19 : \A col \in 0..9 : grid[row][col] # "null"}

\* C18: clearLines() on a board with no full row leaves the grid unchanged and
\* returns 0; so a clearLines() that directly follows a clearLines() returns 0
\* and leaves the grid unchanged.
C18_ClearLinesIdempotent ==
    [][ /\ FullRowsOf(bd.grid) = {} =>
              /\ bd'.grid = bd.grid
              /\ bdRets'[Len(bdRets')] = 0
        /\ Len(bdRets) >= 1 =>
              /\ bd'.grid = bd.grid
              /\ bdRets'[Len(bdRets')] = 0
              /\ bd'.clearedLines = <<>>
      ]_vars

\* a clearLines() that removed rows was followed by one that returned 0 on a
\* board that still holds cells
C18_Witness ==
    /\ Len(bdRets) = 2
    /\ bdRets[1] >= 1
    /\ bdRets[2] = 0
    /\ \E row \in 0..19 : \E col \in 0..9 : bd.grid[row][col] # "null"

\* C19: clearLines() returns the number k of rows that had no empty cell and
\* records exactly the indices of these rows; the grid it leaves has 20 rows of
\* 10 cells, its top k rows are empty, and every row that was not full is found
\* unchanged, moved down by the number of removed rows below it.
C19_ClearLinesShiftsRows ==
    [][ LET full == FullRowsOf(bd.grid)
            k    == Cardinality(full)
        IN  /\ bdRets' = Append(bdRets, k)
            /\ Len(bd'.clearedLines) = k
            /\ {bd'.clearedLines[i] : i \in 1..k} = full
            /\ DOMAIN bd'.grid = 0..19
            /\ \A row \in 0..19 : DOMAIN bd'.grid[row] = 0..9
            /\ \A row \in 0..(k - 1) : \A col \in 0..9 : bd'.grid[row][col] = "null"
            /\ \A row \in (0..19) \ full :
                  bd'.grid[row + Cardinality({f \in full : f > row})] = bd.grid[row]
      ]_vars

\* rows 19 and 17 were removed: the partly filled row between them moved to row
\* 19 and the partly filled row 0 moved to row 2
C19_Witness ==
    /\ bdRets = <<2>>
    /\ bd.clearedLines = <<19, 17>>
    /\ \E col \in 0..9 : bd.grid[19][col] # "null"
    /\ \E col \in 0..9 : bd.grid[19][col] = "null"
    /\ \E col \in 0..9 : bd.grid[2][col] # "null"
    /\ bd.grid[2] # bd.grid[19]

\* C20: in every lock sequence no occupied cell of the piece being locked is
\* above the board (row < 0), so placeTetromino writes all 4 cells of the piece
\* into the grid.
C20_NoCellLockedAboveBoard ==
    [][ Locked' /\ lastOp' \in {"tick", "hardDrop"} =>
            \A c \in Cells(game.currentPiece.shape, game.currentPiece.x, getGhostY(game)) :
                c[2] >= 0
      ]_vars

\* C21: whenever the session is playing or paused, the current piece and the
\* next piece are not null.
C21_PiecesNonNull ==
    game.state \in {"playing", "paused"} =>
        /\ game.currentPiece # NoPiece
        /\ game.nextPiece # NoPiece
        /\ game.currentPiece.type \in {"I", "O", "T", "S", "Z", "J", "L"}
        /\ game.nextPiece.type \in {"I", "O", "T", "S", "Z", "J", "L"}

\* the session was paused right after a lock sequence had promoted the next piece
C21_Witness ==
    /\ game.state = "paused"
    /\ lastOp = "pause"
    /\ game.currentPiece # NoPiece
    /\ game.currentPiece.y <= 0
    /\ game.currentPiece.rotationIndex = 0
    /\ \E row \in 0..19 : \E col \in 0..9 : game.board.grid[row][col] # "null"

\* C22: a gravity tick in playing moves the current piece down by exactly one
\* row and does nothing else when the position one row lower is valid;
\* otherwise it runs the lock sequence in that same tick, locking the piece
\* where it is.  A timer callback run in any other state changes nothing.
C22_TickMovesOrLocks ==
    /\ [][ lastOp' = "tick" /\ game.state = "playing" =>
            LET lower == Cells(game.currentPiece.shape, game.currentPiece.x,
                               game.currentPiece.y + 1)
                valid == \A c \in lower :
                            /\ c[1] \in 0..9
                            /\ c[2] < 20
                            /\ (c[2] >= 0 => game.board.grid[c[2]][c[1]] = "null")
                here  == Cells(game.currentPiece.shape, game.currentPiece.x,
                               game.currentPiece.y)
                placed == [row \in 0..19 |-> [col \in 0..9 |->
                              IF <<col, row>> \in here
                              THEN game.currentPiece.color
                              ELSE game.board.grid[row][col]]]
            IN  /\ valid =>
                      /\ game' = [game EXCEPT !.currentPiece.y = @ + 1]
                      /\ events' = <<>>
                      /\ timers' = timers
                /\ ~valid =>
                      /\ Len(events') >= 1
                      /\ events'[1].ev = "onPiecePlace"
                      /\ game'.currentPiece = game.nextPiece
                      /\ game'.board.grid =
                            clearLines([game.board EXCEPT !.grid = placed]).board.grid
                      /\ game'.score >= game.score
         ]_vars
    /\ [](game.state # "playing" =>
            LET after == dropTimerCallback(Call(W, "tick"), IdDraws)
            IN  /\ after.game = game
                /\ after.timers = timers
                /\ after.events = <<>>)

\* a gravity tick found the piece resting and locked it in that tick, clearing a line
C22_Witness ==
    /\ lastOp = "tick"
    /\ Locked
    /\ EventsOf("onLineClear") # {}
    /\ game.state = "playing"

\* C23: softDrop() in playing, when the position one row lower is valid, moves
\* the piece down one row, adds exactly 1 to the score, fires onScoreUpdate once
\* with the new score and returns true; otherwise it returns false, changes
\* nothing, fires nothing and does not lock the piece.
C23_SoftDropScoresOne ==
    [][ lastOp' = "softDrop" /\ game.state = "playing" =>
            LET lower == Cells(game.currentPiece.shape, game.currentPiece.x,
                               game.currentPiece.y + 1)
                valid == \A c \in lower :
                            /\ c[1] \in 0..9
                            /\ c[2] < 20
                            /\ (c[2] >= 0 => game.board.grid[c[2]][c[1]] = "null")
            IN  /\ timers' = timers
                /\ valid =>
                      /\ ret' = "true"
                      /\ game' = [game EXCEPT !.currentPiece.y = @ + 1,
                                              !.score = @ + 1]
                      /\ Len(events') = 1
                      /\ events'[1].ev = "onScoreUpdate"
                      /\ events'[1].args = <<game.score + 1>>
                /\ ~valid =>
                      /\ ret' = "false"
                      /\ game' = game
                      /\ events' = <<>>
      ]_vars

\* softDrop() was refused on a piece resting on the stack, which stayed unlocked
C23_Witness ==
    /\ lastOp = "softDrop"
    /\ ret = "false"
    /\ game.state = "playing"
    /\ events = <<>>
    /\ ~isValidPosition(game.board, game.currentPiece, 0, 1)
    /\ game.score > 0

\* C24: peek() returns the type the immediately following next() returns, and
\* consumes nothing: a randomizer with peek() calls interleaved returns from
\* every next() the type a randomizer without them returns, and after every
\* next() both hold the same bag (a peek on an empty bag refills it, and the
\* following next() draws from that refill).
C24_PeekDoesNotConsume ==
    /\ [](rzLast.peeked # "none" => rzLast.type = rzLast.peeked)
    /\ [](rzLast.op = "next" =>
              /\ rzLast.type = rzTwin.ret
              /\ rz.bag = rzTwin.bag)
    /\ [](rzLast.op = "peek" =>
              /\ rzLast.type = rz.bag[Len(rz.bag)]
              /\ rzTwin.pending = <<>> => rz.bag = rzTwin.bag)

\* the eighth next() followed a peek() that had refilled the empty bag with a
\* shuffle, and returned the type peeked
C24_Witness ==
    /\ rzCalls = 8
    /\ rzLast.op = "next"
    /\ rzLast.peeked = rzLast.type
    /\ Len(rz.bag) = 6
    /\ rzTwin.ret = rzLast.type
    /\ rz.bag # SubSeq(TetrominoKeys, 1, 6)

\* the transitions the wall-kick table has a key for
C25_TableKeys ==
    { <<0, 1>>, <<1, 2>>, <<2, 3>>, <<3, 0>>, <<1, 0>>, <<2, 1>>, <<3, 2>>, <<0, 3>> }

\* C25: getWallKicks(from, to) returns [(0,0)] for the O piece and for a
\* transition the table has no key for, and otherwise the five candidates of the
\* transition in the I table for the I piece and in the JLSTZ table for the
\* other types; the table has a key for every transition from an index 0..3 by
\* +1 or -1, so Game.rotate never gets the default for a piece other than O.
C25_WallKickLookup ==
    /\ wk.op = "getWallKicks" =>
          LET key == ToString(wk.from) \o "->" \o ToString(wk.to)
          IN  /\ wk.type = "O" \/ <<wk.from, wk.to>> \notin C25_TableKeys =>
                    wk.result = << <<0, 0>> >>
              /\ wk.type = "I" /\ <<wk.from, wk.to>> \in C25_TableKeys =>
                    wk.result = WALL_KICKS.I[key] /\ Len(wk.result) = 5
              /\ wk.type \notin {"I", "O"} /\ <<wk.from, wk.to>> \in C25_TableKeys =>
                    wk.result = WALL_KICKS.JLSTZ[key] /\ Len(wk.result) = 5
    /\ \A from \in 0..3 : \A direction \in {1, -1} :
          /\ <<from, (from + direction + 4) % 4>> \in C25_TableKeys
          /\ ToString(from) \o "->" \o ToString((from + direction + 4) % 4)
                \in (DOMAIN WALL_KICKS.I) \cap (DOMAIN WALL_KICKS.JLSTZ)

\* the I piece asked for the transition 0 -> 3 and got the I table's candidates
C25_Witness ==
    /\ wk.op = "getWallKicks"
    /\ wk.type = "I"
    /\ <<wk.from, wk.to>> = <<0, 3>>
    /\ wk.result = << <<0, 0>>, <<-1, 0>>, <<2, 0>>, <<-1, 2>>, <<2, -1>> >>

\* the entries localStorage holds
C26_Stored == getScores(hs.item)

\* C26: after any sequence of saveScore calls on a working storage, the stored
\* list has at most 10 entries, is sorted by score in non-increasing order, and
\* holds the 10 highest-scoring entries saved so far: every stored entry was
\* saved, no entry is stored twice, the list is as long as the number of saves
\* up to 10, and no entry left out has a higher score than a stored one.
C26_TopTenSorted ==
    LET stored == C26_Stored
        kept   == {stored[i] : i \in 1..Len(stored)}
        saved  == {hs.saved[i] : i \in 1..Len(hs.saved)}
    IN  /\ Len(stored) <= 10
        /\ \A i \in 1..Len(stored) : \A j \in 1..Len(stored) :
              i < j => stored[i].score >= stored[j].score
        /\ kept \subseteq saved
        /\ Cardinality(kept) = Len(stored)
        /\ Len(stored) = (IF Len(hs.saved) < 10 THEN Len(hs.saved) ELSE 10)
        /\ \A out \in saved \ kept : \A in \in kept : out.score <= in.score
        /\ hs.ret = stored

\* the eleventh save had a score above the lowest stored one and pushed an
\* older entry out of the full list
C26_Witness ==
    /\ Len(hs.saved) = 11
    /\ Len(C26_Stored) = 10
    /\ hs.saved[11].score = 300
    /\ \E i \in 1..9 : C26_Stored[i].id = 11 /\ C26_Stored[i + 1].score = 100
    /\ \E i \in 1..10 : hs.saved[i].score = 100
                        /\ \A j \in 1..10 : C26_Stored[j].id # hs.saved[i].id

\* the callbacks of the call from its onPiecePlace on, in the order they fired
C27_LockCallbacks(log) ==
    LET place == CHOOSE i \in DOMAIN log : log[i].ev = "onPiecePlace"
        IsCallback(entry) == entry.ev \in Callbacks
        fired == SelectSeq(SubSeq(log, place, Len(log)), IsCallback)
    IN  [i \in DOMAIN fired |-> fired[i].ev]

\* C27: within one lock sequence the callbacks fire in this order: onPiecePlace,
\* then onLineClear and onScoreUpdate exactly if rows were cleared, then
\* onLevelUp exactly if the level rose, then onGameOver, last, exactly if the
\* new piece cannot spawn; when onLineClear fires the game already holds the
\* score and the lines with this clear, and still the level from before.
C27_LockCallbackOrder ==
    [][ Locked' =>
          /\ C27_LockCallbacks(events') =
                <<"onPiecePlace">>
                \o (IF game'.lines > game.lines
                    THEN <<"onLineClear", "onScoreUpdate">> ELSE <<>>)
                \o (IF game'.level > game.level THEN <<"onLevelUp">> ELSE <<>>)
                \o (IF ~isValidPosition(game'.board, game'.currentPiece, 0, 0)
                    THEN <<"onGameOver">> ELSE <<>>)
          /\ \A i \in DOMAIN events' : events'[i].ev = "onLineClear" =>
                /\ events'[i].score = game'.score
                /\ events'[i].lines = game'.lines
                /\ events'[i].level = game.level
                /\ events'[i].args[1] = game'.lines - game.lines
      ]_vars

\* a lock sequence has just cleared a row and raised the level from 1 to 2
C27_Witness ==
    /\ Locked
    /\ steps > 0
    /\ \E i \in EventsOf("onLineClear") : \E j \in EventsOf("onLevelUp") :
          /\ i < j
          /\ events[i].level = 1
          /\ events[j].level = 2
          /\ events[i].lines = game.lines

\* C28: after every lock sequence the current piece is the piece that was
\* waiting as next piece, in its spawn pose, and the next piece is a new piece
\* in its spawn pose of the type drawn from the session's randomizer (the last
\* type of its bag, or of a refilled bag of the 7 types when it was empty); the
\* waiting next piece is in its spawn pose in every state and no call but
\* start() and a lock sequence changes it.
C28_LockPromotesNext ==
    /\ [][ Locked' =>
            LET bag    == game.bagRandomizer.bag
                bagNow == game'.bagRandomizer.bag
            IN  /\ game'.currentPiece = game.nextPiece
                /\ game'.currentPiece.type = game.nextPiece.type
                /\ C12_SpawnPose(game'.currentPiece)
                /\ C12_SpawnPose(game'.nextPiece)
                /\ Len(bag) > 0 =>
                      /\ game'.nextPiece.type = bag[Len(bag)]
                      /\ bagNow = SubSeq(bag, 1, Len(bag) - 1)
                /\ Len(bag) = 0 =>
                      /\ Len(bagNow) = 6
                      /\ {bagNow[i] : i \in 1..6} \cup {game'.nextPiece.type}
                            = {"I", "O", "T", "S", "Z", "J", "L"}
      ]_vars
    /\ [](game.nextPiece # NoPiece => C12_SpawnPose(game.nextPiece))
    /\ [][ lastOp' # "start" /\ ~Locked' => game'.nextPiece = game.nextPiece ]_vars

\* a hard drop has just locked a moved piece; the lock found the bag empty,
\* refilled it and drew a next piece of another type than the promoted one
C28_Witness ==
    /\ Locked
    /\ steps > 1
    /\ lastOp = "hardDrop"
    /\ Len(game.bagRandomizer.bag) = 6
    /\ game.state = "playing"
    /\ game.currentPiece.type # game.nextPiece.type

\* C29: in every reachable state the shape of the current piece and of the next
\* piece is the catalog matrix of the piece's type at the piece's rotation
\* index, and the index is at least 0 and less than the number of rotations the
\* catalog has for the type.  The catalog is a constant of this module: no
\* operation of the game writes to it.
C29_ShapeFromCatalog ==
    \A piece \in {game.currentPiece, game.nextPiece} \ {NoPiece} :
        LET rotations == TETROMINOES[piece.type].rotations
        IN  /\ piece.rotationIndex \in 0..(Len(rotations) - 1)
            /\ piece.shape = rotations[piece.rotationIndex + 1]
            /\ Len(rotations) = (IF piece.type = "O" THEN 1 ELSE 4)

\* a counter-clockwise rotation has just taken a piece from index 0 to index 3
\* through a kick that was not the first candidate
C29_Witness ==
    /\ lastOp = "rotate"
    /\ ret = "true"
    /\ game.currentPiece.rotationIndex = 3
    /\ game.currentPiece.shape = TETROMINOES[game.currentPiece.type].rotations[4]
    /\ game.currentPiece.shape # TETROMINOES[game.currentPiece.type].rotations[1]
    /\ Cardinality(EventsOf("isValidRotation")) > 1

\* C30: getDropSpeed is non-increasing in the level (the level above never has
\* a longer period), 800 ms at level 1 and 17 ms, the shortest period, at every
\* level from 30 on; a live gravity timer is the one the game holds and its
\* period is getDropSpeed of the current level: a level-up cancels the running
\* timer and sets one with the period of the new level (unless the same lock
\* ends the session), start() and resume set one with the period of the
\* current level.
C30_DropSpeedFollowsLevel ==
    /\ [](ds.op = "getDropSpeed" =>
            /\ ds.speedAbove <= ds.speed
            /\ ds.level = 1 => ds.speed = 800
            /\ ds.level >= 30 => ds.speed = 17
            /\ ds.level < 30 => ds.speed > 17
            /\ ds.speed >= 17)
    /\ [](\A t \in timers : t.id = game.dropInterval /\ t.ms = getDropSpeed(game))
    /\ [][ game'.level > game.level =>
            /\ game.level >= 1
            /\ game.dropInterval # 0
            /\ \E i \in DOMAIN events' : \E j \in DOMAIN events' :
                  /\ i < j
                  /\ events'[i].ev = "clearInterval"
                  /\ events'[i].args = <<game.dropInterval>>
                  /\ events'[j].ev = "setInterval"
                  /\ events'[j].args = <<nextTimerId, getDropSpeed(game')>>
            /\ game'.state = "playing" =>
                  timers' = {[id |-> nextTimerId, ms |-> getDropSpeed(game')]}
            /\ getDropSpeed(game') < getDropSpeed(game)
      ]_vars
    /\ [][ \/ lastOp' = "start"
           \/ lastOp' = "pause" /\ game.state = "paused"
           => timers' = {[id |-> nextTimerId, ms |-> getDropSpeed(game')]}
      ]_vars

\* a lock sequence has just raised the level from 3 to 4 and replaced the
\* 633 ms timer by a 550 ms timer
C30_Witness ==
    /\ Locked
    /\ steps > 0
    /\ game.level = 4
    /\ game.state = "playing"
    /\ \E i \in EventsOf("onLineClear") : events[i].level = 3
    /\ \E t \in timers : t.ms = 550 /\ t.id = game.dropInterval
    /\ \E i \in EventsOf("setInterval") : events[i].args[2] = 550

\* the cells of the piece, put at the row y, are in columns 0..9 and in rows
\* below 20, and those in a row >= 0 are empty on the board
C31_ValidAtRow(board, piece, y) ==
    \A c \in Cells(piece.shape, piece.x, y) :
        /\ c[1] \in 0..9
        /\ c[2] < 20
        /\ (c[2] >= 0 => board.grid[c[2]][c[1]] = "null")

\* C31: for a current piece at a valid position, getGhostY() returns a row g at
\* or below the piece's row such that the piece (same column and rotation) is
\* valid at every row from its own to g and not valid at row g + 1; the call
\* changes neither the piece nor the board nor anything else of the game.
C31_GhostIsLowestValidRow ==
    [][ /\ lastOp' = "getGhostY"
        /\ game.currentPiece # NoPiece
        /\ C31_ValidAtRow(game.board, game.currentPiece, game.currentPiece.y)
        => /\ ret' \in game.currentPiece.y..19
           /\ \A y \in game.currentPiece.y..ret' :
                 C31_ValidAtRow(game.board, game.currentPiece, y)
           /\ ~C31_ValidAtRow(game.board, game.currentPiece, ret' + 1)
           /\ game' = game
           /\ timers' = timers
           /\ events' = <<>>
      ]_vars

\* getGhostY() has just returned a row at least 3 below a rotated, shifted piece
\* that comes to rest on locked cells, above the floor
C31_Witness ==
    /\ lastOp = "getGhostY"
    /\ game.state = "playing"
    /\ game.currentPiece.rotationIndex # 0
    /\ ret >= game.currentPiece.y + 3
    /\ C31_ValidAtRow(game.board, game.currentPiece, ret)
    /\ \E c \in Cells(game.currentPiece.shape, game.currentPiece.x, ret + 1) :
          c[2] < 20 /\ game.board.grid[c[2]][c[1]] # "null"

\* the cells <<column, row>> the call has to test: the occupied cells of the
\* piece's shape, shifted by the piece's position and by the offset
C32_TestedCells ==
    {<<vp.piece.x + col + vp.offsetX, vp.piece.y + row + vp.offsetY>> :
        <<row, col>> \in {rc \in (0..3) \X (0..3) :
            /\ rc[1] < Len(vp.piece.shape)
            /\ rc[2] < Len(vp.piece.shape[rc[1] + 1])
            /\ vp.piece.shape[rc[1] + 1][rc[2] + 1] = 1}}

\* C32: isValidPosition(piece, dx, dy) is true exactly when every occupied cell
\* of the shape, shifted by the piece position and the offset, has a column in
\* 0..9, a row below 20 and, if its row is 0 or more, an empty board cell; a
\* cell in a row above 0 is not tested against the board.
C32_ValidIffCellsFree ==
    vp.op = "isValidPosition" =>
        /\ Cardinality(C32_TestedCells) = 4
        /\ vp.result \in BOOLEAN
        /\ vp.result <=>
              \A c \in C32_TestedCells :
                  /\ 0 <= c[1] /\ c[1] < 10
                  /\ c[2] < 20
                  /\ (c[2] >= 0 => vp.board.grid[c[2]][c[1]] = "null")

\* a piece overhanging the top of a board that holds a locked cell in row 0 was
\* found valid next to that cell
C32_Witness ==
    /\ vp.op = "isValidPosition"
    /\ vp.result
    /\ \E c \in C32_TestedCells : c[2] < 0 /\ vp.board.grid[0][c[1]] # "null"
    /\ \E c \in C32_TestedCells : c[2] >= 0
    /\ <<vp.offsetX, vp.offsetY>> # <<0, 0>>

\* C33: the lock delay is inert: in every reachable state isLocking is false
\* and lockTimer is null, no lock timeout is ever set or cleared, resetLockDelay
\* called in the state would change nothing, and a gravity tick whose move down
\* fails locks the piece in that same tick.
C33_LockDelayInert ==
    /\ [](game.isLocking = FALSE /\ game.lockTimer = 0)
    /\ [](\A i \in DOMAIN events : events[i].ev \notin {"setTimeout", "clearTimeout"})
    /\ [](resetLockDelay(W) = W)
    /\ [][ /\ lastOp' = "tick"
           /\ game.state = "playing"
           /\ \E c \in Cells(game.currentPiece.shape, game.currentPiece.x,
                             game.currentPiece.y + 1) :
                 c[2] >= 20 \/ (c[2] >= 0 /\ game.board.grid[c[2]][c[1]] # "null")
           => /\ Locked'
              /\ game'.currentPiece # game.currentPiece
              /\ game'.currentPiece = game.nextPiece
      ]_vars

\* a tick has just locked a piece that had been shifted and could not move down
C33_Witness ==
    /\ lastOp = "tick"
    /\ Locked
    /\ steps > 1
    /\ game.state = "playing"
    /\ game.isLocking = FALSE
    /\ game.lockTimer = 0
    /\ \E row \in 0..19 : \E col \in 0..9 : game.board.grid[row][col] # "null"

\* C34: in every state between two calls no row of the board has all 10 cells
\* occupied - so after start() and after every lock sequence -; every lock
\* sequence clears 0 to 4 rows, the rows its piece completed, so the base points
\* of the clear are one of the four table entries, and the score is a natural
\* number.
C34_NoFullRowBetweenCalls ==
    /\ [](\A row \in 0..19 : \E col \in 0..9 : game.board.grid[row][col] = "null")
    /\ [](game.score \in Nat /\ game.lines \in Nat)
    /\ [][ Locked' =>
            /\ game'.lines - game.lines \in 0..4
            /\ \A i \in DOMAIN events' : events'[i].ev = "onLineClear" =>
                  /\ events'[i].args[1] \in 1..4
                  /\ events'[i].args[1] = game'.lines - game.lines
                  /\ events'[i].args[2] \in {40 * game.level, 100 * game.level,
                                             300 * game.level, 1200 * game.level}
      ]_vars

\* a lock sequence has just cleared two rows at once and left cells on the board
C34_Witness ==
    /\ Locked
    /\ steps > 0
    /\ \E i \in EventsOf("onLineClear") : events[i].args[1] >= 2
    /\ \E row \in 0..19 : \E col \in 0..9 : game.board.grid[row][col] # "null"

\* the number of rows the current piece can move down
C35_DropDistance ==
    CHOOSE d \in 0..21 :
        /\ \A j \in 0..d :
              C31_ValidAtRow(game.board, game.currentPiece, game.currentPiece.y + j)
        /\ ~C31_ValidAtRow(game.board, game.currentPiece, game.currentPiece.y + d + 1)

C36_PauseTwiceRestores ==
    [][ lastOp' = "pauseTwice" /\ game.state = "playing" =>
          /\ game'.state = "playing"
          /\ game'.board = game.board
          /\ game'.currentPiece = game.currentPiece
          /\ game'.nextPiece = game.nextPiece
          /\ game'.score = game.score
          /\ game'.level = game.level
          /\ game'.lines = game.lines
          /\ game'.bagRandomizer = game.bagRandomizer
          /\ Cardinality(timers') = 1
          /\ \A t \in timers' : /\ t.id = game'.dropInterval
                                /\ t.id \notin {u.id : u \in timers}
                                /\ t.ms = getDropSpeed(game)
      ]_vars

\* pause() was called twice in a row on a session at level 2 or more whose piece
\* had been moved; it plays again on a timer faster than 800 ms
C36_Witness ==
    /\ lastOp = "pauseTwice"
    /\ steps > 1
    /\ game.state = "playing"
    /\ game.level >= 2
    /\ game.score > 0
    /\ Cardinality(timers) = 1
    /\ \A t \in timers : t.ms < 800
    /\ EventsOf("setInterval") # {}

\* C37: when rotate(d) succeeds with the offset (0,0), its first candidate, a
\* rotate(-d) called right after it succeeds too, again with (0,0), and the
\* piece has its rotation index, shape and position from before the two calls;
\* nothing else of the game has changed.
C37_RotateBackRestores ==
    [][ /\ lastOp' = "rotateBack"
        /\ Len(events') >= 1
        /\ events'[1].args = <<0, 0, 1>>
        => /\ ret' = "true"
           /\ Len(events') = 2
           /\ events'[2].ev = "isValidRotation"
           /\ events'[2].args = <<0, 0, 1>>
           /\ game'.currentPiece.rotationIndex = game.currentPiece.rotationIndex
           /\ game'.currentPiece.shape = game.currentPiece.shape
           /\ game'.currentPiece.x = game.currentPiece.x
           /\ game'.currentPiece.y = game.currentPiece.y
           /\ game' = game
           /\ timers' = timers
      ]_vars

\* a piece that had been rotated and shifted over a board with locked cells was
\* rotated in place and back
C37_Witness ==
    /\ lastOp = "rotateBack"
    /\ ret = "true"
    /\ steps > 1
    /\ Len(events) = 2
    /\ events[1].args = <<0, 0, 1>>
    /\ game.currentPiece.rotationIndex # 0
    /\ game.currentPiece.x # Tetromino(game.currentPiece.type).x
    /\ \E row \in 0..19 : \E col \in 0..9 : game.board.grid[row][col] # "null"

C39_OneRenderLoop == Cardinality(app.frames) <= 1

\* C40: at any time at most one repeat timer is set per key code; a repeat
\* callback calls a game command only for a key whose last key event was a
\* keydown, not a keyup, and only while the game is playing.
C40_RepeatTimers ==
    /\ [](\A code \in Codes : Cardinality({t \in ctl.timers : t.code = code}) <= 1)
    /\ [][ctl'.last.op = "interval" /\ ctl'.last.command # "none"
            => /\ ctl'.last.code \notin ctl.up
               /\ ctl'.last.code \in ctl.keysDown
               /\ ctl.state = "playing"]_vars

\* a repeat callback ran while the game was paused and called nothing, another
\* key having been held and released before, and its timer cleared
C40_Witness ==
    /\ ctl.last = [op |-> "interval", code |-> "ArrowDown", command |-> "none"]
    /\ ctl.state = "paused"
    /\ "ArrowDown" \in ctl.keysDown
    /\ "ArrowLeft" \in ctl.up
    /\ ctl.repeatTimers["ArrowLeft"] = 0
    /\ ctl.repeatTimers["ArrowDown"] = 3
    /\ ctl.timers = {[id |-> 3, kind |-> "interval", code |-> "ArrowDown"]}

====
